---------------------------- MODULE Spec2Model ----------------------------
(***************************************************************************)
(* WebWolf CMS: region schema extraction (services/templateParser.js),     *)
(* template catalog sync, the public content-resolution router             *)
(* (server/render/public.js) and the block-embedding hook                  *)
(* (server/index.js).                                                      *)
(*                                                                         *)
(* Text is modelled as a sequence of tokens.  A token is one character of  *)
(* interest to the scanners (a quote, ">", "/") or a whole word that holds *)
(* none of those characters.  The empty string is <<>>; JavaScript's       *)
(* null/undefined is the distinguished value Null.                         *)
(***************************************************************************)
EXTENDS Integers, Sequences, FiniteSets, TLC

VARIABLES
    elems,      \* SpecExtract: the template markup, as a list of elements
    out,        \* SpecExtract: what extractRegions returned for it
    pcE,        \* SpecExtract: "input" | "done"
    seoPage,    \* SpecSeo: the module record (pageData) the SEO data is built from
    seoOut,     \* SpecSeo: the seo object built from it
    pcS,        \* SpecSeo: "input" | "done"
    db,         \* SpecRouter: the stored tables and the template files
    req,        \* SpecRouter: the request being handled by router.get('*')
    envBlocks,  \* SpecRouter: the block list held by the renderBlock global
    blocksData, \* SpecBlock: the block rows setupRenderBlock was given
    blockCall,  \* SpecBlock: the last renderBlock(slug) call and its result
    tree,       \* SpecSync: the template files, path |-> readable
    templatesTbl, \* SpecSync: the templates table, a set of rows
    contentTypes, \* SpecSync: the content_types table, a set of rows
    sync,       \* SpecSync: the syncTemplatesToDb call in progress
    snaps       \* SpecSync: the tables as each completed sync left them

extractVars == <<elems, out, pcE>>
seoVars == <<seoPage, seoOut, pcS>>
routerVars == <<db, req, envBlocks>>
blockVars == <<blocksData, blockCall>>
syncVars == <<tree, templatesTbl, contentTypes, sync, snaps>>

vars == <<extractVars, seoVars, routerVars, blockVars, syncVars>>

\* what the actions of one part leave alone
notExtract == <<seoVars, routerVars, blockVars, syncVars>>
notSeo == <<extractVars, routerVars, blockVars, syncVars>>
notRouter == <<extractVars, seoVars, blockVars, syncVars>>
notBlock == <<extractVars, seoVars, routerVars, syncVars>>
notSync == <<extractVars, seoVars, routerVars, blockVars>>

-----------------------------------------------------------------------------
(* Strings                                                                 *)

Null == <<"<null>">>

\* JavaScript truthiness of a string-or-null value
Falsy(s) == s = Null \/ s = <<>>

\* a || b
Or(a, b) == IF Falsy(a) THEN b ELSE a

Quotes == {"\"", "'"}

MinOf(S) == CHOOSE p \in S : \A q \in S : p <= q

\* first index >= i of t holding a token of C, or 0
FirstIn(t, C, i) ==
    LET S == {p \in i..Len(t) : t[p] \in C}
    IN  IF S = {} THEN 0 ELSE MinOf(S)

-----------------------------------------------------------------------------
(* Schema extractor                                                        *)

\* `${attrName}=("([^"]*)"|'([^']*)')` tried at position p of tagString:
\* the index of the closing quote, or 0 when the pattern does not match there
AttrMatchAt(tagString, attrName, p) ==
    IF tagString[p] # attrName \/ p + 1 > Len(tagString)
         \/ tagString[p + 1] \notin Quotes
    THEN 0
    ELSE FirstIn(tagString, {tagString[p + 1]}, p + 2)

extractAttribute(tagString, attrName) ==
    LET P == {p \in 1..Len(tagString) : AttrMatchAt(tagString, attrName, p) # 0}
    IN  IF P = {} THEN Null
        ELSE LET p == MinOf(P)
             IN  SubSeq(tagString, p + 2, AttrMatchAt(tagString, attrName, p) - 1)

\* c => c.toUpperCase() on the first character of a word
Cap(w) ==
    CASE w = "hero"  -> "Hero"
      [] w = "body"  -> "Body"
      [] w = "title" -> "Title"
      [] w = "home"   -> "Home"
      [] w = "post"   -> "Post"
      [] w = "footer" -> "Footer"
      [] w = "promo"  -> "Promo"
      [] w = "page"   -> "Page"
      [] w = "base"   -> "Base"
      [] w = "notes"  -> "Notes"
      [] w = "pages"  -> "Pages"
      [] w = "blog"   -> "Blog"
      [] w = "blocks" -> "Blocks"
      [] OTHER       -> w

\* name.replace(/[-_]/g, ' ').replace(/\b\w/g, c => c.toUpperCase())
formatLabel(name) ==
    LET spaced == [i \in DOMAIN name |->
                     IF name[i] \in {"-", "_"} THEN " " ELSE name[i]]
    IN  [i \in DOMAIN spaced |->
           IF spaced[i] = " " THEN " " ELSE Cap(spaced[i])]

\* fieldsJson.replace(/&quot;/g, '"')
Unescape(s) == [i \in DOMAIN s |-> IF s[i] = "&quot;" THEN "\"" ELSE s[i]]

EmptyArray == [kind |-> "array", items |-> <<>>]

\* JSON.parse on the blobs that occur in the model: ok = FALSE is a SyntaxError
JsonParse(s) ==
    CASE s = <<"[{", "\"", "name", "\"", ":", "\"", "title", "\"", "}]">>
           -> [ok |-> TRUE,
               val |-> [kind |-> "array",
                        items |-> <<[name |-> <<"title">>]>>]]
      [] s = <<"[]">>
           -> [ok |-> TRUE, val |-> EmptyArray]
      [] s = <<"{", "\"", "name", "\"", ":", "\"", "title", "\"", "}">>
           -> [ok |-> TRUE, val |-> [kind |-> "object", name |-> <<"title">>]]
      [] s = <<"[{", "\"", "name", "\"", ":", "\"", "items", "\"", ",",
               "\"", "type", "\"", ":", "\"", "repeater", "\"", ",",
               "\"", "fields", "\"", ":",
               "[{", "\"", "name", "\"", ":", "\"", "title", "\"", "}]",
               "}]">>
           -> [ok |-> TRUE,
               val |-> [kind |-> "array",
                        items |-> <<[name |-> <<"items">>,
                                     type |-> <<"repeater">>,
                                     fields |->
                                       [kind |-> "array",
                                        items |-> <<[name |-> <<"title">>]>>]]
                                  >>]]
      [] OTHER
           -> [ok |-> FALSE, val |-> Null]

\* ParseFields without its catch clause
ParseFieldsNoCatch(fieldsJson) ==
    LET r == JsonParse(Unescape(fieldsJson))
    IN  IF r.ok THEN [threw |-> FALSE, val |-> r.val]
        ELSE [threw |-> TRUE, val |-> Null]

\* try { region.fields = JSON.parse(...) } catch (e) { region.fields = [] }
ParseFields(fieldsJson) ==
    LET r == JsonParse(Unescape(fieldsJson))
    IN  IF r.ok THEN [threw |-> FALSE, val |-> r.val]
        ELSE [threw |-> FALSE, val |-> EmptyArray]

\* RegionType with a vocabulary check: a value outside the editor's
\* vocabulary is replaced by the default
RegionTypeChecked(fullMatch) ==
    LET t == extractAttribute(fullMatch, "data-cms-type=")
    IN  IF t \in {<<"text">>, <<"richtext">>, <<"textarea">>, <<"image">>,
                  <<"checkbox">>, <<"select">>, <<"repeater">>}
        THEN t ELSE <<"text">>

\* extractAttribute(fullMatch, 'data-cms-type') || 'text'
RegionType(fullMatch) ==
    Or(extractAttribute(fullMatch, "data-cms-type="), <<"text">>)

\* the body of the for loop up to the duplicate test: the region one match
\* yields, and whether building it threw
RegionOf(regionName, fullMatch) ==
    LET region ==
          [name        |-> regionName,
           type        |-> RegionType(fullMatch),
           label       |-> Or(extractAttribute(fullMatch, "data-cms-label="),
                              formatLabel(regionName)),
           required    |-> extractAttribute(fullMatch, "data-cms-required=")
                             = <<"true">>,
           placeholder |-> Or(extractAttribute(fullMatch,
                                               "data-cms-placeholder="), <<>>)]
        fieldsJson == extractAttribute(fullMatch, "data-cms-fields=")
    IN  IF region.type = <<"repeater">> /\ ~Falsy(fieldsJson)
        THEN LET f == ParseFields(fieldsJson)
             IN  [threw |-> f.threw,
                  region |-> IF f.threw THEN region
                             ELSE region @@ [fields |-> f.val]]
        ELSE [threw |-> FALSE, region |-> region]

\* /data-cms-region=["']([^"']+)["'][^>]*>/ tried at position i of content:
\* [q |-> index of the quote closing the name, j |-> index of the final ">"],
\* j = 0 when the pattern does not match there
RegionMatchAt(content, i) ==
    IF content[i] # "data-cms-region=" \/ i + 1 > Len(content)
         \/ content[i + 1] \notin Quotes
    THEN [q |-> 0, j |-> 0]
    ELSE LET q == FirstIn(content, Quotes, i + 2)
         IN  IF q = 0 \/ q = i + 2 THEN [q |-> 0, j |-> 0]
             ELSE [q |-> q, j |-> FirstIn(content, {">"}, q + 1)]

\* content.matchAll(regionRegex) from position i on: the matches in order,
\* each with its capture group 1 and its full text
RECURSIVE MatchAll(_, _)
MatchAll(content, i) ==
    IF i > Len(content) THEN <<>>
    ELSE LET m == RegionMatchAt(content, i)
         IN  IF m.j = 0 THEN MatchAll(content, i + 1)
             ELSE <<[name |-> SubSeq(content, i + 2, m.q - 1),
                     full |-> SubSeq(content, i, m.j)]>>
                  \o MatchAll(content, m.j + 1)

\* PushRegion where a later annotation of the same name replaces the
\* earlier one
PushRegionLastWins(regions, region) ==
    IF \E k \in DOMAIN regions : regions[k].name = region.name
    THEN [k \in DOMAIN regions |->
            IF regions[k].name = region.name THEN region ELSE regions[k]]
    ELSE Append(regions, region)

\* if (!regions.find(r => r.name === regionName)) regions.push(region)
PushRegion(regions, region) ==
    IF \E k \in DOMAIN regions : regions[k].name = region.name
    THEN regions
    ELSE Append(regions, region)

\* the for loop over the matches k..Len(matches), from the accumulator acc
RECURSIVE ExtractLoop(_, _, _)
ExtractLoop(matches, k, acc) ==
    IF k > Len(matches) \/ acc.threw THEN acc
    ELSE LET r == RegionOf(matches[k].name, matches[k].full)
         IN  ExtractLoop(matches, k + 1,
                 IF r.threw THEN [threw |-> TRUE, regions |-> acc.regions]
                 ELSE [threw |-> FALSE,
                       regions |-> PushRegion(acc.regions, r.region)])

\* extractRegions(content): threw = an exception escaped, else the regions
extractRegions(content) ==
    ExtractLoop(MatchAll(content, 1), 1, [threw |-> FALSE, regions |-> <<>>])

-----------------------------------------------------------------------------
(* Template markup fed to the extractor                                    *)

MaxElems == 2

GoodFields == <<"[{", "&quot;", "name", "&quot;", ":",
                "&quot;", "title", "&quot;", "}]">>

\* a fields attribute holding one object instead of a list
ObjectFields == <<"{", "&quot;", "name", "&quot;", ":",
                  "&quot;", "title", "&quot;", "}">>

\* a fields attribute whose sub-field is a repeater with fields of its own
NestedFields ==
    <<"[{", "&quot;", "name", "&quot;", ":", "&quot;", "items", "&quot;", ",",
      "&quot;", "type", "&quot;", ":", "&quot;", "repeater", "&quot;", ",",
      "&quot;", "fields", "&quot;", ":",
      "[{", "&quot;", "name", "&quot;", ":", "&quot;", "title", "&quot;", "}]",
      "}]">>

\* quotes left unescaped inside the double-quoted attribute
BadFields == <<"[{", "\"", "name", "\"", ":", "\"", "title", "\"", "}]">>

RegionNames == {<<"hero", "_", "title">>, <<"Hero", "_", "title">>}

\* <<data-cms-type, data-cms-fields>> as written on an element
TypeFieldsOpts ==
    {<<Null, Null>>, <<Null, GoodFields>>, <<<<>>, Null>>,
     <<<<"number">>, Null>>, <<<<"repeater">>, Null>>,
     <<<<"repeater">>, GoodFields>>, <<<<"repeater">>, BadFields>>}

\* <<data-cms-label, data-cms-required, data-cms-placeholder>> as written
DecorOpts ==
    {<<Null, Null, Null>>, <<<<"A">>, Null, Null>>,
     <<Null, <<"true">>, Null>>, <<Null, Null, <<"P">>>>}

\* an element: what its author wrote for each attribute (Null = not
\* written); lead tells whether the other attributes are written before
\* the region-name attribute or after it
Elements ==
    {[name |-> n, type |-> tf[1], fields |-> tf[2],
      label |-> d[1], required |-> d[2], placeholder |-> d[3],
      lead |-> FALSE] :
        n \in RegionNames, tf \in TypeFieldsOpts, d \in DecorOpts}

\* elements with their attributes on either side of the region-name
\* attribute: none written, type and label written, all five written, a
\* repeater whose fields are one object, a repeater of repeaters
OrderElements ==
    {[name |-> n, type |-> a[1], fields |-> a[2],
      label |-> a[3], required |-> a[4], placeholder |-> a[5],
      lead |-> l] :
        n \in {<<"hero", "_", "title">>, <<"body">>},
        a \in {<<Null, Null, Null, Null, Null>>,
               <<<<"richtext">>, Null, <<"A">>, Null, Null>>,
               <<<<"repeater">>, GoodFields, <<"A">>, <<"true">>, <<"P">>>>,
               <<<<"repeater">>, ObjectFields, Null, Null, Null>>,
               <<<<"repeater">>, NestedFields, Null, Null, Null>>},
        l \in BOOLEAN}

RECURSIVE SeqsUpTo(_, _)
SeqsUpTo(S, n) ==
    IF n = 0 THEN {<<>>}
    ELSE LET shorter == SeqsUpTo(S, n - 1)
         IN  shorter \cup {Append(s, x) : s \in shorter, x \in S}

AttrText(k, v) == IF v = Null THEN <<>> ELSE <<k, "\"">> \o v \o <<"\"">>

\* the attributes of an element other than the region name
OtherAttrs(e) ==
    AttrText("data-cms-type=", e.type)
      \o AttrText("data-cms-label=", e.label)
      \o AttrText("data-cms-required=", e.required)
      \o AttrText("data-cms-placeholder=", e.placeholder)
      \o AttrText("data-cms-fields=", e.fields)

\* the text of one element: <div data-cms-region="..." ...> or
\* <div ... data-cms-region="...">
ElementText(e) ==
    IF e.lead
    THEN <<"<div">> \o OtherAttrs(e) \o AttrText("data-cms-region=", e.name)
           \o <<">">>
    ELSE <<"<div">> \o AttrText("data-cms-region=", e.name) \o OtherAttrs(e)
           \o <<">">>

RECURSIVE MarkupText(_)
MarkupText(es) ==
    IF es = <<>> THEN <<>> ELSE ElementText(Head(es)) \o MarkupText(Tail(es))

NoResult == [threw |-> FALSE, regions |-> <<>>]

ExtractInit ==
    /\ elems \in SeqsUpTo(Elements, MaxElems)
    /\ out = NoResult
    /\ pcE = "input"

\* templates whose elements carry their attributes before or after the
\* region name
ExtractOrderInit ==
    /\ elems \in SeqsUpTo(OrderElements, MaxElems)
    /\ out = NoResult
    /\ pcE = "input"

ExtractIdle == elems = <<>> /\ out = NoResult /\ pcE = "idle"

\* extractRegions is applied to the markup
Extract ==
    /\ pcE = "input"
    /\ out' = extractRegions(MarkupText(elems))
    /\ pcE' = "done"
    /\ UNCHANGED <<elems, notExtract>>

ExtractNext == Extract

-----------------------------------------------------------------------------
(* Schema extractor: properties                                            *)

\* index of the first element of the markup annotated with name n
FirstOccurrence(n) == MinOf({i \in DOMAIN elems : elems[i].name = n})

\* the region an element yields when it stands alone in a template
AloneRegion(e) == extractRegions(ElementText(e)).regions[1]

RegionNamesOf(regions) == {regions[k].name : k \in DOMAIN regions}

\* C1: the returned names are pairwise distinct under case-sensitive
\* comparison, every annotated name is returned, and each returned region
\* is exactly the region its first occurrence yields on its own
C1_FirstOccurrenceWins ==
    pcE = "done" =>
      /\ \A k, l \in DOMAIN out.regions :
           out.regions[k].name = out.regions[l].name => k = l
      /\ RegionNamesOf(out.regions) = {elems[i].name : i \in DOMAIN elems}
      /\ \A k \in DOMAIN out.regions :
           out.regions[k]
             = AloneRegion(elems[FirstOccurrence(out.regions[k].name)])

\* a name annotated twice with different labels, returned once
C1_Witness ==
    /\ pcE = "done"
    /\ Len(elems) = 2
    /\ elems[1].name = elems[2].name
    /\ elems[1].label = <<"A">>
    /\ elems[2].label = Null
    /\ Len(out.regions) = 1
    /\ out.regions[1].label = <<"A">>

\* a repeater whose sub-field definition JSON.parse rejects
Malformed(e) == e.type = <<"repeater">> /\ e.fields = BadFields

\* the markup without its i-th element
Without(es, i) == SubSeq(es, 1, i - 1) \o SubSeq(es, i + 1, Len(es))

\* the regions of a list whose name is not n, in order
RECURSIVE OtherThan(_, _)
OtherThan(regions, n) ==
    IF regions = <<>> THEN <<>>
    ELSE IF Head(regions).name = n THEN OtherThan(Tail(regions), n)
         ELSE <<Head(regions)>> \o OtherThan(Tail(regions), n)

\* C2: a repeater with a malformed sub-field definition does not make
\* extractRegions raise; its region has fields = [], and the regions of
\* every other name are those the markup yields without that element
C2_MalformedFieldsAbsorbed ==
    pcE = "done" =>
      \A i \in DOMAIN elems :
        Malformed(elems[i]) =>
          /\ ~out.threw
          /\ FirstOccurrence(elems[i].name) = i =>
               \E k \in DOMAIN out.regions :
                 /\ out.regions[k].name = elems[i].name
                 /\ "fields" \in DOMAIN out.regions[k]
                 /\ out.regions[k].fields = EmptyArray
          /\ OtherThan(out.regions, elems[i].name)
               = OtherThan(extractRegions(MarkupText(Without(elems, i))).regions,
                           elems[i].name)

\* a malformed repeater followed by a region of another name: both returned
C2_Witness ==
    /\ pcE = "done"
    /\ Len(elems) = 2
    /\ Malformed(elems[1])
    /\ elems[2].name # elems[1].name
    /\ ~out.threw
    /\ Len(out.regions) = 2
    /\ out.regions[1].fields = EmptyArray
    /\ out.regions[2].name = elems[2].name

RegionTypes ==
    {<<"text">>, <<"richtext">>, <<"textarea">>, <<"image">>,
     <<"checkbox">>, <<"select">>, <<"repeater">>}

\* C3 as claimed: every returned region has a type of the vocabulary
C3_TypeInVocabulary ==
    pcE = "done" =>
      \A k \in DOMAIN out.regions : out.regions[k].type \in RegionTypes

\* C3 as amended: a missing or empty type attribute yields text; any other
\* written value is returned as written, inside the vocabulary or not
C3_TypeDefaultsOnlyWhenAbsent ==
    pcE = "done" =>
      \A k \in DOMAIN out.regions :
        LET e == elems[FirstOccurrence(out.regions[k].name)]
        IN  out.regions[k].type
              = IF e.type = Null \/ e.type = <<>> THEN <<"text">> ELSE e.type

\* one region without a type attribute, one typed outside the vocabulary
C3_Witness ==
    /\ pcE = "done"
    /\ Len(out.regions) = 2
    /\ elems[1].type = Null
    /\ out.regions[1].type = <<"text">>
    /\ elems[2].type = <<"number">>
    /\ out.regions[2].type = <<"number">>

\* the region an element declares: the values of its own type, label,
\* required, placeholder and fields attributes, wherever they are written
Declared(e) ==
    LET region == [name        |-> e.name,
                   type        |-> Or(e.type, <<"text">>),
                   label       |-> Or(e.label, formatLabel(e.name)),
                   required    |-> e.required = <<"true">>,
                   placeholder |-> Or(e.placeholder, <<>>)]
    IN  IF region.type = <<"repeater">> /\ ~Falsy(e.fields)
        THEN region @@ [fields |-> ParseFields(e.fields).val]
        ELSE region

\* C27: every returned region has the type, label, required, placeholder
\* and fields declared on the element that carries its name, whether they
\* are written before or after the region-name attribute
C27_AttributesOfSameElement ==
    pcE = "done" =>
      \A k \in DOMAIN out.regions :
        out.regions[k]
          = Declared(elems[FirstOccurrence(out.regions[k].name)])

\* a sub-field that is a repeater with a fields value of its own
NestedRepeater(item) ==
    /\ "type" \in DOMAIN item
    /\ "fields" \in DOMAIN item
    /\ item.type = <<"repeater">>

\* C28: a returned region has a fields value only when its type is
\* repeater, the fields value is a list, and none of its sub-fields is a
\* repeater with fields of its own
C28_FieldsOneLevel ==
    pcE = "done" =>
      \A k \in DOMAIN out.regions :
        "fields" \in DOMAIN out.regions[k] =>
          /\ out.regions[k].type = <<"repeater">>
          /\ out.regions[k].fields.kind = "array"
          /\ \A i \in DOMAIN out.regions[k].fields.items :
               ~NestedRepeater(out.regions[k].fields.items[i])

-----------------------------------------------------------------------------
(* SEO data of a resolved record                                           *)

\* a JavaScript value that may be null, a string or an already parsed object
JNull == [t |-> "null"]
JStr(s) == [t |-> "string", s |-> s]
JObj(o) == [t |-> "object", o |-> o]

\* value.trim()
RECURSIVE TrimLeft(_)
TrimLeft(s) == IF s # <<>> /\ Head(s) = " " THEN TrimLeft(Tail(s)) ELSE s

RECURSIVE TrimRight(_)
TrimRight(s) ==
    IF s # <<>> /\ s[Len(s)] = " " THEN TrimRight(SubSeq(s, 1, Len(s) - 1))
    ELSE s

Trim(s) == TrimRight(TrimLeft(s))

\* parseJsonField(value): never throws
parseJsonField(value) ==
    IF value.t = "null" THEN JNull
    ELSE IF value.t = "object" THEN value
    ELSE IF Trim(value.s) = <<>> THEN JNull
    ELSE LET r == JsonParse(value.s)
         IN  IF r.ok THEN JObj(r.val) ELSE JNull

\* pageData.schema_markup || null
OrNull(value) ==
    IF value.t = "string" /\ value.s = <<>> THEN JNull ELSE value

\* a ?? b
Nullish(a, b) == IF a = Null THEN b ELSE a

\* buildSeo with ?? in place of ||: only null falls through
buildSeoNullish(pageData, contentRow, site, slug) ==
    [title       |-> Nullish(pageData.meta_title, contentRow.title),
     description |-> Nullish(pageData.meta_description, <<>>),
     canonical   |-> Nullish(pageData.canonical_url, site.site_url \o slug),
     robots      |-> Nullish(pageData.robots, <<"index, follow">>),
     og          |-> [title       |-> Nullish(pageData.og_title,
                                        Nullish(pageData.meta_title,
                                                contentRow.title)),
                      description |-> Nullish(pageData.og_description,
                                        Nullish(pageData.meta_description,
                                                <<>>)),
                      image       |-> Nullish(pageData.og_image, <<>>),
                      url         |-> site.site_url \o slug,
                      type        |-> <<"website">>],
     schema      |-> parseJsonField(OrNull(pageData.schema_markup))]

\* const seo = { ... }
buildSeo(pageData, contentRow, site, slug) ==
    [title       |-> Or(pageData.meta_title, contentRow.title),
     description |-> Or(pageData.meta_description, <<>>),
     canonical   |-> Or(pageData.canonical_url, site.site_url \o slug),
     robots      |-> Or(pageData.robots, <<"index, follow">>),
     og          |-> [title       |-> Or(pageData.og_title,
                                        Or(pageData.meta_title,
                                           contentRow.title)),
                      description |-> Or(pageData.og_description,
                                        Or(pageData.meta_description, <<>>)),
                      image       |-> Or(pageData.og_image, <<>>),
                      url         |-> site.site_url \o slug,
                      type        |-> <<"website">>],
     schema      |-> parseJsonField(OrNull(pageData.schema_markup))]

\* a schema_markup column holding JSON text, well-formed or cut short
GoodSchema == <<"{", "\"", "name", "\"", ":", "\"", "title", "\"", "}">>
BadSchema == <<"{", "\"", "name", "\"", ":">>

\* the SEO columns of a module record as the admin API can store them:
\* NULL, the empty string of a cleared form field, or a text
SeoPages ==
    [meta_title       : {Null, <<>>, <<"X">>},
     meta_description : {Null, <<>>, <<"D">>},
     og_title         : {Null, <<>>, <<"OT">>},
     og_description   : {Null, <<>>, <<"OD">>},
     og_image         : {Null, <<"img.png">>},
     canonical_url    : {Null, <<"https://other.example/c">>},
     robots           : {Null, <<>>, <<"noindex">>},
     schema_markup    : {JNull, JStr(GoodSchema), JStr(BadSchema)}]

SeoContent == [title |-> <<"Welcome">>]
SeoSite == [site_url |-> <<"https://example.com">>]
SeoSlug == <<"/", "pages", "/", "about">>

NoSeo == [title |-> Null]

SeoInit ==
    /\ seoPage \in SeoPages
    /\ seoOut = NoSeo
    /\ pcS = "input"

SeoIdle == seoPage = [meta_title |-> Null] /\ seoOut = NoSeo /\ pcS = "idle"

\* the seo object is built for the resolved record
BuildSeo ==
    /\ pcS = "input"
    /\ seoOut' = buildSeo(seoPage, SeoContent, SeoSite, SeoSlug)
    /\ pcS' = "done"
    /\ UNCHANGED <<seoPage, notSeo>>

SeoNext == BuildSeo

\* the first value of a chain that is neither null nor the empty string
RECURSIVE FirstTruthy(_)
FirstTruthy(chain) ==
    IF Len(chain) = 1 \/ ~Falsy(Head(chain)) THEN Head(chain)
    ELSE FirstTruthy(Tail(chain))

\* the first value of a chain that is not null
RECURSIVE FirstNonNull(_)
FirstNonNull(chain) ==
    IF Len(chain) = 1 \/ Head(chain) # Null THEN Head(chain)
    ELSE FirstNonNull(Tail(chain))

-----------------------------------------------------------------------------
(* Content resolution router: stored state                                 *)

Last(t) == t[Len(t)]

NoRow == [id |-> 0]

\* the content table; the slug of record 1 is what PUT /api/pages/:id stored,
\* which adds a leading slash and keeps the rest as given; record 4 is of a
\* module the router has no branch for
ContentRows(homeSlug) ==
    {[id |-> 1, module |-> "pages", slug |-> homeSlug,
      title |-> <<"Welcome">>, data |-> JStr(GoodSchema)],
     [id |-> 2, module |-> "pages", slug |-> <<"/", "pages", "/", "about">>,
      title |-> <<"About Us">>, data |-> JStr(BadSchema)],
     [id |-> 3, module |-> "products",
      slug |-> <<"/", "products", "/", "widget">>,
      title |-> <<"Widget">>, data |-> JStr(BadSchema)],
     [id |-> 4, module |-> "blog",
      slug |-> <<"/", "pages", "/", "blog", "/", "post">>,
      title |-> <<"Post">>, data |-> JNull]}

\* the pages table; page 13 has no content record (content_id NULL), so
\* the home page query joins it with a NULL slug; page 14 belongs to
\* content record 4
PageRows(status1, template2, canonical2) ==
    {[id |-> 11, content_id |-> 1, status |-> status1,
      template_filename |-> <<"pages/home.njk">>,
      meta_title |-> Null, meta_description |-> Null,
      og_title |-> Null, og_description |-> Null, og_image |-> Null,
      canonical_url |-> Null, robots |-> <<"index, follow">>,
      schema_markup |-> JNull],
     [id |-> 12, content_id |-> 2, status |-> "published",
      template_filename |-> template2,
      meta_title |-> <<"X">>, meta_description |-> <<>>,
      og_title |-> Null, og_description |-> Null, og_image |-> Null,
      canonical_url |-> canonical2, robots |-> Null,
      schema_markup |-> JStr(BadSchema)],
     [id |-> 13, content_id |-> 0, status |-> "published",
      template_filename |-> <<"pages/default.njk">>,
      meta_title |-> Null, meta_description |-> Null,
      og_title |-> Null, og_description |-> Null, og_image |-> Null,
      canonical_url |-> Null, robots |-> Null, schema_markup |-> JNull],
     [id |-> 14, content_id |-> 4, status |-> status1,
      template_filename |-> <<"pages/default.njk">>,
      meta_title |-> Null, meta_description |-> Null,
      og_title |-> Null, og_description |-> Null, og_image |-> Null,
      canonical_url |-> Null, robots |-> Null,
      schema_markup |-> JStr(BadSchema)]}

ProductRows(status3) ==
    {[id |-> 21, content_id |-> 3, status |-> status3,
      template_filename |-> <<"products/single.njk">>,
      meta_title |-> Null, meta_description |-> Null,
      og_title |-> Null, og_description |-> Null, og_image |-> Null,
      canonical_url |-> Null, robots |-> Null, schema_markup |-> JNull]}

BlockRows ==
    {[id |-> 31, slug |-> <<"footer">>, content |-> JStr(GoodSchema),
      template_filename |-> <<"blocks/footer.njk">>]}

\* the template files the rendering engine can load
BaseTemplates ==
    {<<"pages/home.njk">>, <<"pages/default.njk">>, <<"products/single.njk">>,
     <<"pages/404.njk">>, <<"pages/500.njk">>, <<"blocks/footer.njk">>,
     <<"pages/index.njk">>}

SiteUrl == <<"https://example.com">>

\* home_page_id is the id of a page, or 0 for '' (None) in the settings form
Databases ==
    {[settings  |-> [home_page_id |-> home, site_url |-> SiteUrl,
                     site_name |-> <<"Site">>],
      content   |-> ContentRows(homeSlug),
      pages     |-> PageRows(status1, template2, canonical2),
      products  |-> ProductRows(status3),
      blocks    |-> BlockRows,
      templates |-> BaseTemplates \cup extra] :
        home \in {0, 11, 13, 99},
        homeSlug \in {<<"/", "pages", "/", "home">>,
                      <<"/", "pages", "/", "home", "/">>},
        status1 \in {"published", "draft", "archived"},
        template2 \in {<<"pages/default.njk">>, <<"pages/gone.njk">>, Null},
        canonical2 \in {Null, <<"https://other.example/about">>},
        status3 \in {"active", "draft", "archived"},
        extra \in {{}, {<<"products/index.njk">>}}}

\* the request paths tried
Paths ==
    {<<"/">>, <<"/", "/">>,
     <<"/", "about">>, <<"/", "about", "/">>, <<"/", "about", "/", "/">>,
     <<"/", "pages", "/", "about">>, <<"/", "pages", "/", "about", "/">>,
     <<"/", "pages", "/", "home">>, <<"/", "pages", "/", "home", "/">>,
     <<"/", "home">>, <<"/", "widget">>,
     <<"/", "products", "/", "widget">>,
     <<"/", "pages">>, <<"/", "pages", "/">>,
     <<"/", "products">>, <<"/", "products", "/">>,
     <<"/", "blog">>, <<"/", "blog", "/", "post">>}

-----------------------------------------------------------------------------
(* Content resolution router: router.get('*')                              *)

knownModules == {"pages", "products", "blocks"}

\* [a-z]+ on a word
IsLowerWord(w) ==
    w \in {"pages", "products", "blocks", "about", "home", "widget", "blog",
           "post"}

\* a handler that takes the request path as it is
NormalizeNone(path) == path

\* if (slug !== '/' && slug.endsWith('/')) slug = slug.slice(0, -1)
Normalize(path) ==
    IF path # <<"/">> /\ Last(path) = "/"
    THEN SubSeq(path, 1, Len(path) - 1) ELSE path

\* slug.split('/').filter(s => s)
Segments(slug) == SelectSeq(slug, LAMBDA t : t # "/")

\* DefaultPrefix that knows no module: every path is prefixed
DefaultPrefixAlways(slug) ==
    IF slug # <<"/">> /\ Segments(slug) # <<>>
    THEN <<"/", "pages">> \o slug ELSE slug

\* Default to /pages/ if no module prefix
DefaultPrefix(slug) ==
    IF slug # <<"/">> /\ Segments(slug) # <<>>
         /\ Head(Segments(slug)) \notin knownModules
    THEN <<"/", "pages">> \o slug ELSE slug

\* slug.match(/^\/([a-z]+)\/?$/) and knownModules.includes(moduleMatch[1]):
\* the module of a module index request, or "" when it is not one
IndexModule(slug) ==
    IF /\ Len(slug) \in {2, 3}
       /\ slug[1] = "/"
       /\ slug[2] # "/" /\ IsLowerWord(slug[2])
       /\ (Len(slug) = 3 => slug[3] = "/")
       /\ slug[2] \in knownModules
    THEN slug[2] ELSE ""

\* collation order of the titles stored
TitleRank(title) ==
    CASE title = <<"About Us">> -> 1
      [] title = <<"Welcome">>  -> 2
      [] title = <<"Widget">>   -> 3
      [] OTHER                  -> 4

\* the rows of S in ascending order of key, a function on S
RECURSIVE SetToSeqBy(_, _)
SetToSeqBy(S, key) ==
    IF S = {} THEN <<>>
    ELSE LET x == CHOOSE y \in S : \A z \in S : key[y] <= key[z]
         IN  <<x>> \o SetToSeqBy(S \ {x}, key)

\* ListByModule in primary-key order, without the ORDER BY
ListByModuleUnordered(d, module) ==
    LET S == {c \in d.content : c.module = module}
    IN  SetToSeqBy(S, [c \in S |-> c.id])

\* SELECT ... FROM content c WHERE c.module = ? ORDER BY c.title ASC
ListByModule(d, module) ==
    LET S == {c \in d.content : c.module = module}
    IN  SetToSeqBy(S, [c \in S |-> TitleRank(c.title)])

\* the first row of a result set, or NoRow
FirstRow(S) == IF S = {} THEN NoRow ELSE CHOOSE x \in S : TRUE

\* SELECT p.id, c.slug FROM pages p LEFT JOIN content c ON ... WHERE p.id = ?
HomePageRow(d, id) ==
    FirstRow({[id |-> p.id,
               slug |-> LET cs == {c \in d.content : c.id = p.content_id}
                        IN  IF cs = {} THEN Null ELSE FirstRow(cs).slug] :
                 p \in {q \in d.pages : q.id = id}})

\* SELECT id, module, title, data FROM content WHERE slug = ?
ContentBySlug(d, slug) == FirstRow({c \in d.content : c.slug = slug})

\* the module table query without the status condition of its WHERE clause
ModuleRecordNoGate(d, contentRow) ==
    IF contentRow.module = "products"
    THEN FirstRow({r \in d.products : r.content_id = contentRow.id})
    ELSE IF contentRow.module = "blocks"
    THEN NoRow
    ELSE FirstRow({r \in d.pages : r.content_id = contentRow.id})

\* a module dispatch that has no table for a module it does not know
ModuleRecordKnownOnly(d, contentRow) ==
    IF contentRow.module = "products"
    THEN FirstRow({r \in d.products :
                     r.content_id = contentRow.id
                       /\ r.status \in {"active", "draft"}})
    ELSE IF contentRow.module = "pages"
    THEN FirstRow({r \in d.pages :
                     r.content_id = contentRow.id /\ r.status = "published"})
    ELSE NoRow

\* the module table query that module dispatch issues for a content record
ModuleRecord(d, contentRow) ==
    IF contentRow.module = "products"
    THEN FirstRow({r \in d.products :
                     r.content_id = contentRow.id
                       /\ r.status \in {"active", "draft"}})
    ELSE IF contentRow.module = "blocks"
    THEN NoRow
    ELSE FirstRow({r \in d.pages :
                     r.content_id = contentRow.id /\ r.status = "published"})

\* getSiteSettings(): the settings table as an object, or the fallback
SiteSettings(d, ok) ==
    IF ok THEN d.settings
    ELSE [home_page_id |-> 0, site_url |-> <<"http://localhost:3000">>,
          site_name |-> <<"WebWolf CMS">>]

\* what the renderBlock global of the shared environment holds: nothing
\* before the first setupRenderBlock, then the rows given to the last one
NoBlocks == [registered |-> FALSE, rows |-> {}]
Registered(rows) == [registered |-> TRUE, rows |-> rows]

\* no request in progress; loaded is the block list the request has given
\* to setupRenderBlock, seen the one the renderBlock global held while the
\* response was rendered, seo the SEO data the request has built
Idle ==
    [pc |-> "idle", path |-> <<>>, slug |-> <<>>, site |-> SiteSettings(db, FALSE),
     calls |-> <<>>, listing |-> <<>>, lookupSlug |-> Null,
     contentRow |-> NoRow,
     pageData |-> NoRow, seo |-> NoSeo, outcome |-> [kind |-> "none"],
     loaded |-> NoBlocks, seen |-> NoBlocks]

Call(r, q, ok) == Append(r.calls, <<q, ok>>)

\* the part of the handler between the home override and the first query
\* that depends on the slug: default prefix, then module index detection
AfterHome(r, slug0) ==
    LET slug == DefaultPrefix(slug0)
    IN  [r EXCEPT !.slug = slug,
                  !.pc = IF IndexModule(slug) # "" THEN "index" ELSE "lookup"]

\* getSiteSettings(), path normalization and the test for the home override
StepSettings(d, r, ok) ==
    LET site == SiteSettings(d, ok)
        slug == Normalize(r.path)
        r1 == [r EXCEPT !.site = site, !.calls = Call(r, "settings", ok)]
    IN  IF slug = <<"/">> /\ site.home_page_id # 0
        THEN [r1 EXCEPT !.slug = slug, !.pc = "home"]
        ELSE AfterHome(r1, slug)

\* the home page query without its try/catch: a failure reaches the outer
\* catch of the handler
StepHomeNoCatch(d, r, ok) ==
    LET row == HomePageRow(d, r.site.home_page_id)
        r1 == [r EXCEPT !.calls = Call(r, "home", ok)]
    IN  IF ~ok
        THEN [r1 EXCEPT !.calls = Append(r1.calls, <<"settings", TRUE>>),
                        !.pc = "done",
                        !.outcome =
                            [kind |-> "ServerError", status |-> 500,
                             template |-> <<"pages/500.njk">>,
                             context |-> [title |-> <<"Server Error">>,
                                          site |-> d.settings]]]
        ELSE IF row # NoRow /\ ~Falsy(row.slug)
        THEN [r1 EXCEPT !.slug = DefaultPrefix(row.slug),
                        !.pc = IF IndexModule(DefaultPrefix(row.slug)) # ""
                               THEN "index" ELSE "lookup"]
        ELSE [r1 EXCEPT !.slug = DefaultPrefix(r.slug),
                        !.pc = IF IndexModule(DefaultPrefix(r.slug)) # ""
                               THEN "index" ELSE "lookup"]

\* the home page query inside its own try/catch
StepHome(d, r, ok) ==
    LET row == IF ok THEN HomePageRow(d, r.site.home_page_id) ELSE NoRow
        r1 == [r EXCEPT !.calls = Call(r, "home", ok)]
    IN  IF row # NoRow /\ ~Falsy(row.slug)
        THEN AfterHome(r1, row.slug)
        ELSE AfterHome(r1, r.slug)

\* the module content query of a module index request; a failure is caught
\* and the handler falls through to the content lookup
StepIndexList(d, r, ok) ==
    IF ok
    THEN [r EXCEPT !.calls = Call(r, "list", ok),
                   !.listing = ListByModule(d, IndexModule(r.slug)),
                   !.pc = "indexRender"]
    ELSE [r EXCEPT !.calls = Call(r, "list", ok), !.pc = "lookup"]

\* res.render(view, context): the view is rendered, or the engine's error is
\* handed to next(err) and answered by the application's error handler
RenderOutcome(d, status, kind, template, context) ==
    IF template \in d.templates
    THEN [kind |-> kind, status |-> status, template |-> template,
          context |-> context]
    ELSE [kind |-> "ErrorHandler", status |-> 500, template |-> template,
          context |-> context]

\* res.status(404).render('pages/404.njk', { title, site })
NotFound(d, site) ==
    RenderOutcome(d, 404, "NotFound", <<"pages/404.njk">>,
                  [title |-> <<"Page Not Found">>, site |-> site])

\* res.status(500).render('pages/500.njk', { title, site })
ServerError(d, site) ==
    RenderOutcome(d, 500, "ServerError", <<"pages/500.njk">>,
                  [title |-> <<"Server Error">>, site |-> site])

\* the handler ends with an error page, for which getSiteSettings() is
\* awaited once more
EndNotFound(d, r, okSite) ==
    [r EXCEPT !.calls = Call(r, "settings", okSite), !.pc = "done",
              !.outcome = NotFound(d, SiteSettings(d, okSite))]

EndServerError(d, r, okSite) ==
    [r EXCEPT !.calls = Call(r, "settings", okSite), !.pc = "done",
              !.outcome = ServerError(d, SiteSettings(d, okSite))]

\* getAllMenus(), getAllBlocks(), setupRenderBlock and the index render
StepIndexRender(d, r, okMenus, okBlocks) ==
    LET module == IndexModule(r.slug)
    IN  [r EXCEPT
           !.calls = r.calls \o <<<<"menus", okMenus>>, <<"blocks", okBlocks>>>>,
           !.pc = "done",
           !.outcome =
               RenderOutcome(d, 200, "ModuleIndex", <<module \o "/index.njk">>,
                   [module |-> module, content |-> r.listing,
                    site |-> r.site])]

\* the content query by slug; not found renders the 404 template
StepLookup(d, r, ok, okSite) ==
    LET r1 == [r EXCEPT !.calls = Call(r, "content", ok),
                        !.lookupSlug = r.slug]
        row == ContentBySlug(d, r.slug)
    IN  IF ~ok THEN EndServerError(d, r1, okSite)
        ELSE IF row = NoRow THEN EndNotFound(d, r1, okSite)
        ELSE [r1 EXCEPT !.contentRow = row, !.pc = "module"]

\* module dispatch that answers a record without template with the 404 page
StepModuleTemplate404(d, r, ok, okSite) ==
    LET r1 == [r EXCEPT !.calls = Call(r, "module", ok)]
        row == ModuleRecord(d, r.contentRow)
    IN  IF ~ok THEN EndServerError(d, r1, okSite)
        ELSE IF row = NoRow THEN EndNotFound(d, r1, okSite)
        ELSE IF Falsy(row.template_filename)
        THEN EndNotFound(d, [r1 EXCEPT !.pageData = row], okSite)
        ELSE [r1 EXCEPT !.pageData = row, !.pc = "blocks"]

\* module dispatch: no module record is a 404, no template a 500
StepModule(d, r, ok, okSite) ==
    LET r1 == [r EXCEPT !.calls = Call(r, "module", ok)]
        row == ModuleRecord(d, r.contentRow)
    IN  IF ~ok THEN EndServerError(d, r1, okSite)
        ELSE IF row = NoRow THEN EndNotFound(d, r1, okSite)
        ELSE IF Falsy(row.template_filename)
        THEN EndServerError(d, [r1 EXCEPT !.pageData = row], okSite)
        ELSE [r1 EXCEPT !.pageData = row, !.pc = "blocks"]

\* the slug the canonical URL is built from, were it the raw request path
CanonicalSlugRaw(r) == r.path

\* the slug in `${site.site_url}${slug}`
CanonicalSlug(r) == r.slug

\* getAllMenus() and getAllBlocks(), whose list goes to setupRenderBlock
StepBlocks(d, r, okMenus, okBlocks) ==
    [r EXCEPT
       !.calls = r.calls \o <<<<"menus", okMenus>>, <<"blocks", okBlocks>>>>,
       !.pc = "seo"]

\* a handler that goes on to the render without building the SEO data
StepSeoSkipped(d, r) == [r EXCEPT !.pc = "context"]

\* an SEO assembly whose JSON.parse is not guarded: the SyntaxError of a
\* malformed schema_markup reaches the catch of the handler
StepSeoNoCatch(d, r) ==
    LET v == OrNull(r.pageData.schema_markup)
    IN  IF v.t = "string" /\ Trim(v.s) # <<>> /\ ~JsonParse(v.s).ok
        THEN EndServerError(d, r, TRUE)
        ELSE [r EXCEPT !.seo = buildSeo(r.pageData, r.contentRow, r.site,
                                        CanonicalSlug(r)),
                       !.pc = "context"]

\* the SEO data of the record
StepSeo(d, r) ==
    [r EXCEPT !.seo = buildSeo(r.pageData, r.contentRow, r.site,
                               CanonicalSlug(r)),
              !.pc = "context"]

\* the template context and the render of the record's template
StepRender(d, r) ==
    LET content == LET c == parseJsonField(r.contentRow.data)
                   IN  IF c = JNull THEN JObj([kind |-> "object"]) ELSE c
    IN  [r EXCEPT
           !.pc = "done",
           !.outcome =
               RenderOutcome(d, 200, "RenderContext",
                   r.pageData.template_filename,
                   [page |-> r.pageData, content |-> content, seo |-> r.seo,
                    site |-> r.site])]

\* getAllBlocks(): the block rows, or [] when the query fails
AllBlocks(d, ok) == IF ok THEN d.blocks ELSE {}

\* a response rendered by a step that registers no block list is rendered
\* with the renderBlock global as it is
RenderedWith(r, env) == IF r.pc = "done" THEN [r EXCEPT !.seen = env] ELSE r

\* setupRenderBlock(env, blocksData) followed by the render
RenderedWithOwn(r, rows) ==
    [r EXCEPT !.loaded = Registered(rows), !.seen = Registered(rows)]

\* setupRenderBlock(env, blocksData) of a single-record resolution
WiredWith(r, rows) == [r EXCEPT !.loaded = Registered(rows)]

RouterInit ==
    /\ db \in Databases
    /\ req = Idle
    /\ envBlocks = NoBlocks

RouterIdle ==
    /\ db = [settings |-> [home_page_id |-> 0]]
    /\ req = [pc |-> "off"]
    /\ envBlocks = {}

\* a GET request arrives
Receive ==
    /\ req.pc = "idle"
    /\ \E path \in Paths : req' = [Idle EXCEPT !.pc = "settings", !.path = path]
    /\ UNCHANGED <<db, envBlocks, notRouter>>

GetSettings ==
    /\ req.pc = "settings"
    /\ \E ok \in BOOLEAN : req' = StepSettings(db, req, ok)
    /\ UNCHANGED <<db, envBlocks, notRouter>>

HomeLookup ==
    /\ req.pc = "home"
    /\ \E ok \in BOOLEAN :
         req' = RenderedWith(StepHome(db, req, ok), envBlocks)
    /\ UNCHANGED <<db, envBlocks, notRouter>>

IndexList ==
    /\ req.pc = "index"
    /\ \E ok \in BOOLEAN : req' = StepIndexList(db, req, ok)
    /\ UNCHANGED <<db, envBlocks, notRouter>>

IndexRender ==
    /\ req.pc = "indexRender"
    /\ \E okMenus, okBlocks \in BOOLEAN :
         /\ req' = RenderedWithOwn(StepIndexRender(db, req, okMenus, okBlocks),
                                   AllBlocks(db, okBlocks))
         /\ envBlocks' = Registered(AllBlocks(db, okBlocks))
    /\ UNCHANGED <<db, notRouter>>

Lookup ==
    /\ req.pc = "lookup"
    /\ \E ok, okSite \in BOOLEAN :
         req' = RenderedWith(StepLookup(db, req, ok, okSite), envBlocks)
    /\ UNCHANGED <<db, envBlocks, notRouter>>

ModuleDispatch ==
    /\ req.pc = "module"
    /\ \E ok, okSite \in BOOLEAN :
         req' = RenderedWith(StepModule(db, req, ok, okSite), envBlocks)
    /\ UNCHANGED <<db, envBlocks, notRouter>>

BlockWiring ==
    /\ req.pc = "blocks"
    /\ \E okMenus, okBlocks \in BOOLEAN :
         /\ req' = WiredWith(StepBlocks(db, req, okMenus, okBlocks),
                             AllBlocks(db, okBlocks))
         /\ envBlocks' = Registered(AllBlocks(db, okBlocks))
    /\ UNCHANGED <<db, notRouter>>

SeoAssembly ==
    /\ req.pc = "seo"
    /\ req' = StepSeo(db, req)
    /\ UNCHANGED <<db, envBlocks, notRouter>>

Render ==
    /\ req.pc = "context"
    /\ req' = RenderedWith(StepRender(db, req), envBlocks)
    /\ UNCHANGED <<db, envBlocks, notRouter>>

\* the response is sent; the next request starts from nothing
Respond ==
    /\ req.pc = "done"
    /\ req' = Idle
    /\ UNCHANGED <<db, envBlocks, notRouter>>

RouterNext ==
    \/ Receive
    \/ GetSettings
    \/ HomeLookup
    \/ IndexList
    \/ IndexRender
    \/ Lookup
    \/ ModuleDispatch
    \/ BlockWiring
    \/ SeoAssembly
    \/ Render
    \/ Respond

\* the handler run to its response with every query succeeding
StepOk(d, r) ==
    CASE r.pc = "settings"    -> StepSettings(d, r, TRUE)
      [] r.pc = "home"        -> StepHome(d, r, TRUE)
      [] r.pc = "index"       -> StepIndexList(d, r, TRUE)
      [] r.pc = "indexRender" -> StepIndexRender(d, r, TRUE, TRUE)
      [] r.pc = "lookup"      -> StepLookup(d, r, TRUE, TRUE)
      [] r.pc = "module"      -> StepModule(d, r, TRUE, TRUE)
      [] r.pc = "blocks"      -> StepBlocks(d, r, TRUE, TRUE)
      [] r.pc = "seo"         -> StepSeo(d, r)
      [] r.pc = "context"     -> StepRender(d, r)

RECURSIVE Run(_, _)
Run(d, r) == IF r.pc = "done" THEN r ELSE Run(d, StepOk(d, r))

\* the response to a request for path against the stored state d
Resolve(d, path) ==
    Run(d, [Idle EXCEPT !.pc = "settings", !.path = path]).outcome

\* the outcome of the n-th query that follows the calls of r in the call
\* list c; a query c does not hold succeeds
NextOk(r, c, n) ==
    IF Len(r.calls) + n \in DOMAIN c THEN c[Len(r.calls) + n][2] ELSE TRUE

StepWith(d, r, c) ==
    CASE r.pc = "settings"    -> StepSettings(d, r, NextOk(r, c, 1))
      [] r.pc = "home"        -> StepHome(d, r, NextOk(r, c, 1))
      [] r.pc = "index"       -> StepIndexList(d, r, NextOk(r, c, 1))
      [] r.pc = "indexRender" ->
           StepIndexRender(d, r, NextOk(r, c, 1), NextOk(r, c, 2))
      [] r.pc = "lookup"      ->
           StepLookup(d, r, NextOk(r, c, 1), NextOk(r, c, 2))
      [] r.pc = "module"      ->
           StepModule(d, r, NextOk(r, c, 1), NextOk(r, c, 2))
      [] r.pc = "blocks"      ->
           StepBlocks(d, r, NextOk(r, c, 1), NextOk(r, c, 2))
      [] r.pc = "seo"         -> StepSeo(d, r)
      [] r.pc = "context"     -> StepRender(d, r)

RECURSIVE RunWith(_, _, _)
RunWith(d, r, c) ==
    IF r.pc = "done" THEN r ELSE RunWith(d, StepWith(d, r, c), c)

\* the handler run for path against the stored state d with its queries
\* succeeding and failing as in the call list c
ResolveWith(d, path, c) ==
    RunWith(d, [Idle EXCEPT !.pc = "settings", !.path = path], c)

-----------------------------------------------------------------------------
(* Content resolution router: properties                                   *)

Called(q) == \E k \in DOMAIN req.calls : req.calls[k][1] = q
CalledOk(q) == \E k \in DOMAIN req.calls : req.calls[k] = <<q, TRUE>>
Failed(q) == \E k \in DOMAIN req.calls : req.calls[k] = <<q, FALSE>>
AllOk == \A k \in DOMAIN req.calls : req.calls[k][2]

\* a path with one trailing slash removed, "/" itself left alone
StripSlash(path) ==
    IF Len(path) > 1 /\ path[Len(path)] = "/"
    THEN [k \in 1..(Len(path) - 1) |-> path[k]] ELSE path

\* the first segment of a path, "" when it has none
FirstSegment(path) ==
    LET S == {k \in DOMAIN path : path[k] # "/"}
    IN  IF S = {} THEN "" ELSE path[MinOf(S)]

\* C4: when a content record is looked up for a path other than "/", the
\* slug of the lookup is the normalized path, with /pages put in front of
\* it when its first segment is not pages, products or blocks
C4_DefaultPrefixBeforeLookup ==
    (Called("content") /\ req.path # <<"/">> /\ FirstSegment(req.path) # "") =>
      req.lookupSlug
        = IF FirstSegment(req.path) \in {"pages", "products", "blocks"}
          THEN StripSlash(req.path)
          ELSE <<"/", "pages">> \o StripSlash(req.path)

\* /about/ is looked up as /pages/about and found
C4_Witness ==
    /\ req.pc = "done"
    /\ req.path = <<"/", "about", "/">>
    /\ req.lookupSlug = <<"/", "pages", "/", "about">>
    /\ req.contentRow.id = 2

\* the slug of the content record of the page home_page_id names, Null when
\* there is no such page or it has no slug
HomeSlug(d) ==
    LET row == HomePageRow(d, d.settings.home_page_id)
    IN  IF d.settings.home_page_id = 0 \/ row = NoRow THEN Null ELSE row.slug

\* C5: with home_page_id naming a record of slug S, a request for "/" that
\* meets no storage failure ends in the response a request for S gets
C5_HomeSameAsSlug ==
    (req.pc = "done" /\ req.path = <<"/">> /\ AllOk /\ ~Falsy(HomeSlug(db))) =>
      req.outcome = Resolve(db, HomeSlug(db))

\* the normalized path is one segment naming a known module
IsIndexPath(path) ==
    StripSlash(path) \in {<<"/", m>> : m \in {"pages", "products", "blocks"}}

Sorted(listing) ==
    \A k, l \in DOMAIN listing :
      k < l => TitleRank(listing[k].title) <= TitleRank(listing[l].title)

\* C6 as claimed: a module index request never looks a single record up
C6_IndexNeverLooksUp ==
    IsIndexPath(req.path) => ~Called("content")

\* C6 as amended: a module index request lists every content record of the
\* module in ascending title order, and looks a single record up by slug
\* only after that listing query failed
C6_IndexLooksUpOnlyAfterFailedListing ==
    IsIndexPath(req.path) =>
      /\ CalledOk("list") =>
           /\ {req.listing[k] : k \in DOMAIN req.listing}
                = {c \in db.content : c.module = FirstSegment(req.path)}
           /\ Len(req.listing)
                = Cardinality({c \in db.content :
                                 c.module = FirstSegment(req.path)})
           /\ Sorted(req.listing)
           /\ ~Called("content")
      /\ Called("content") => Failed("list")

\* /pages lists About Us (id 2) before Welcome (id 1) and renders the index
C6_Witness ==
    /\ req.pc = "done"
    /\ req.path = <<"/", "pages">>
    /\ req.outcome.kind = "ModuleIndex"
    /\ Len(req.listing) = 2
    /\ req.listing[1].id = 2
    /\ req.listing[2].id = 1
    /\ ~Called("content")

\* C8: a rendered record without a canonical_url of its own gets the
\* canonical URL site_url + slug, the slug being the one the record was
\* looked up by, which is the record's own
C8_CanonicalFromResolvedSlug ==
    (req.pc = "done" /\ req.outcome.kind = "RenderContext"
       /\ req.pageData.canonical_url = Null) =>
      /\ req.outcome.context.seo.canonical
           = req.site.site_url \o req.lookupSlug
      /\ req.lookupSlug = req.contentRow.slug
      /\ CalledOk("settings") => req.site.site_url = db.settings.site_url

\* /about/ renders the page stored under /pages/about with the canonical
\* URL site_url + /pages/about
C8_Witness ==
    /\ req.pc = "done"
    /\ req.path = <<"/", "about", "/">>
    /\ req.outcome.kind = "RenderContext"
    /\ req.pageData.canonical_url = Null
    /\ req.outcome.context.seo.canonical
         = SiteUrl \o <<"/", "pages", "/", "about">>

\* the rows of the module table of a content record that its module's
\* query accepts
Passing(d, c) ==
    IF c.module = "products"
    THEN {r \in d.products :
            r.content_id = c.id /\ r.status \in {"active", "draft"}}
    ELSE {r \in d.pages : r.content_id = c.id /\ r.status = "published"}

\* C11: a single-record resolution whose queries succeed answers NotFound
\* when no content record has the slug, NotFound when the content record
\* has no module record passing its module's query, ServerError when that
\* module record has no template, and otherwise renders the module record's
\* template with the record in the context, which is a RenderContext with
\* status 200 when the engine can load that template
C11_SingleRecordOutcome ==
    (req.pc = "done" /\ CalledOk("content") /\ ~Failed("module")) =>
      LET cs == {c \in db.content : c.slug = req.lookupSlug}
          ms == UNION {Passing(db, c) : c \in cs}
          o == req.outcome
      IN  /\ cs = {} => o.kind = "NotFound" /\ o.status = 404
          /\ (cs # {} /\ ms = {}) => o.kind = "NotFound" /\ o.status = 404
          /\ \A m \in ms :
               IF Falsy(m.template_filename)
               THEN o.kind = "ServerError" /\ o.status = 500
               ELSE /\ o.template = m.template_filename
                    /\ o.context.page = m
                    /\ o.kind \notin {"NotFound", "ServerError"}
                    /\ m.template_filename \in db.templates =>
                         o.kind = "RenderContext" /\ o.status = 200

\* the published page of /pages/about has no template: the 500 page
C11_Witness ==
    /\ req.pc = "done"
    /\ req.lookupSlug = <<"/", "pages", "/", "about">>
    /\ AllOk
    /\ req.pageData.id = 12
    /\ req.pageData.template_filename = Null
    /\ req.outcome.kind = "ServerError"

\* C12: a RenderContext is rendered only for a page whose status is
\* published or a product whose status is active or draft, and a content
\* record whose page or product has another status is answered NotFound
C12_StatusGate ==
    /\ (req.pc = "done" /\ req.outcome.kind = "RenderContext") =>
         /\ req.pageData.content_id = req.contentRow.id
         /\ req.contentRow.module = "pages" =>
              req.pageData \in db.pages /\ req.pageData.status = "published"
         /\ req.contentRow.module = "products" =>
              /\ req.pageData \in db.products
              /\ req.pageData.status \in {"active", "draft"}
    /\ (req.pc = "done" /\ CalledOk("module")) =>
         LET c == req.contentRow
             rows == IF c.module = "products" THEN db.products ELSE db.pages
             gate == IF c.module = "products" THEN {"active", "draft"}
                     ELSE {"published"}
         IN  (\A r \in rows : r.content_id = c.id => r.status \notin gate)
               => req.outcome.kind = "NotFound"

\* an archived page is answered with the 404 page
C12_Witness ==
    /\ req.pc = "done"
    /\ AllOk
    /\ req.contentRow.id = 1
    /\ \E p \in db.pages : p.content_id = 1 /\ p.status = "archived"
    /\ req.outcome.kind = "NotFound"

\* how many times query q was issued for the request
Issued(q) == Cardinality({k \in DOMAIN req.calls : req.calls[k][1] = q})

\* C13 as claimed: a failure of any query ends the request in ServerError
\* and the failed query is issued once
C13_FailureEndsInServerError ==
    req.pc = "done" =>
      \A k \in DOMAIN req.calls :
        ~req.calls[k][2] =>
          req.outcome.kind = "ServerError" /\ Issued(req.calls[k][1]) = 1

\* C13 as amended: a failed content or module query ends the request in
\* ServerError; a failed settings, home, listing, menus or blocks query is
\* absorbed (fallback settings, the path "/" kept, the single-record lookup
\* instead of the index, an empty block list), so that ServerError without
\* a failed content or module query means a module record without
\* template; no query is issued twice, but for the settings query, which is
\* issued once more for the 404 or 500 page
C13_FailureHandling ==
    req.pc = "done" =>
      /\ (Failed("content") \/ Failed("module")) =>
           req.outcome.kind = "ServerError"
      /\ (req.outcome.kind = "ServerError"
            /\ ~Failed("content") /\ ~Failed("module")) =>
           req.pageData # NoRow /\ Falsy(req.pageData.template_filename)
      /\ req.calls[1] = <<"settings", FALSE>> =>
           req.site = [home_page_id |-> 0,
                       site_url |-> <<"http://localhost:3000">>,
                       site_name |-> <<"WebWolf CMS">>]
      /\ Failed("home") => req.slug = <<"/">>
      /\ Failed("list") => Called("content")
      /\ Failed("blocks") => envBlocks = Registered({})
      /\ \A q \in {"home", "list", "content", "module", "menus", "blocks"} :
           Issued(q) <= 1
      /\ Issued("settings")
           = IF req.outcome.kind \in {"NotFound", "ServerError"} THEN 2 ELSE 1

\* /about is rendered although the settings, menus and blocks queries failed
C13_Witness ==
    /\ req.pc = "done"
    /\ req.path = <<"/", "about">>
    /\ req.calls = <<<<"settings", FALSE>>, <<"content", TRUE>>,
                     <<"module", TRUE>>, <<"menus", FALSE>>,
                     <<"blocks", FALSE>>>>
    /\ req.outcome.kind = "RenderContext"
    /\ req.outcome.context.seo.canonical
         = <<"http://localhost:3000", "/", "pages", "/", "about">>

\* C18: whenever a response is rendered with a registered renderBlock, the
\* block list it consults is the one the same request has loaded
C18_RenderSeesOwnBlocks ==
    (req.pc = "done" /\ req.seen.registered) => req.seen = req.loaded


\* the place of the first call of query q among the calls of the request
Pos(q) == CHOOSE k \in DOMAIN req.calls :
            /\ req.calls[k][1] = q
            /\ \A m \in 1..(k - 1) : req.calls[m][1] # q

\* the request is a single-record resolution that has passed module dispatch
SingleRecord == Called("content") /\ req.pageData # NoRow

\* the statement of C19 as written: the SEO data is built before the block
\* list is registered
C19_SeoBeforeBlockWiring ==
    (SingleRecord /\ req.loaded.registered) => req.seo # NoSeo

\* C19: a single-record resolution runs record lookup, module dispatch,
\* block wiring, SEO assembly, context assembly and render in this order:
\* module dispatch follows a successful record lookup, the block list is
\* registered after module dispatch and before the SEO data is built, and
\* the template is rendered with the SEO data built and the block list
\* registered
C19_StepOrder ==
    /\ Called("module") =>
          CalledOk("content") /\ Pos("content") < Pos("module")
    /\ (Called("content") /\ Called("blocks")) =>
          /\ CalledOk("module") /\ Pos("module") < Pos("blocks")
          /\ req.loaded.registered
    /\ (Called("content") /\ req.loaded.registered) => Called("blocks")
    /\ req.seo # NoSeo => SingleRecord /\ req.loaded.registered
    /\ req.outcome.kind = "RenderContext" =>
          /\ req.seo # NoSeo
          /\ req.outcome.context.seo = req.seo
          /\ req.loaded.registered
          /\ req.seen = req.loaded

\* /pages/about has its block list registered and its SEO data not yet
\* built, and later is rendered with both
C19_Witness ==
    /\ req.path = <<"/", "pages", "/", "about">>
    /\ req.pc = "done"
    /\ req.outcome.kind = "RenderContext"
    /\ req.outcome.status = 200
    /\ req.loaded.registered
    /\ req.seo # NoSeo


\* the path ends in a slash
EndsInSlash(p) == Last(p) = "/"

\* C20: normalization leaves / alone and takes exactly one trailing slash
\* off any other path; a request for p + "/", p other than / and not ending
\* in a slash, issues the same queries and has the same outcome as a
\* request for p against the same stored state, the queries succeeding and
\* failing alike
C20_TrailingSlash ==
    /\ Normalize(<<"/">>) = <<"/">>
    /\ req.pc # "idle" =>
          LET p == req.path
          IN  /\ (p # <<"/">> /\ EndsInSlash(p)) =>
                    Normalize(p) \o <<"/">> = p
              /\ ~EndsInSlash(p) =>
                    Normalize(p) = p /\ Normalize(p \o <<"/">>) = p
    /\ (req.pc = "done" /\ ~EndsInSlash(req.path)) =>
          LET t == ResolveWith(db, req.path \o <<"/">>, req.calls)
          IN  t.outcome = req.outcome /\ t.calls = req.calls
    /\ (req.pc = "done" /\ EndsInSlash(req.path)
          /\ ~EndsInSlash(Normalize(req.path))) =>
          LET t == ResolveWith(db, Normalize(req.path), req.calls)
          IN  t.outcome = req.outcome /\ t.calls = req.calls

\* /pages/about/ is answered with the page stored under /pages/about
C20_Witness ==
    /\ req.pc = "done"
    /\ req.path = <<"/", "pages", "/", "about", "/">>
    /\ req.lookupSlug = <<"/", "pages", "/", "about">>
    /\ req.outcome.kind = "RenderContext"
    /\ req.outcome.status = 200

\* the home page query of the request found no row or was rejected
HomeLookupFailed ==
    /\ Called("home")
    /\ Failed("home") \/ HomePageRow(db, req.site.home_page_id) = NoRow

\* C21: when the home page query of a request for "/" is rejected or finds
\* no row, resolution goes on with the slug "/": the content record is
\* looked up under "/", and the request ends in ServerError only when the
\* content or module query fails or the record has no template
C21_HomeLookupFailureAbsorbed ==
    (req.pc = "done" /\ HomeLookupFailed) =>
      /\ Normalize(req.path) = <<"/">>
      /\ req.site.home_page_id # 0
      /\ req.slug = <<"/">>
      /\ Called("content") /\ req.lookupSlug = <<"/">>
      /\ req.outcome.kind = "ServerError" =>
           \/ Failed("content") \/ Failed("module")
           \/ req.pageData # NoRow /\ Falsy(req.pageData.template_filename)

\* the home page query of a request for "/" was rejected and the request
\* ended in the not-found page for the slug "/"
C21_Witness ==
    /\ req.pc = "done"
    /\ req.path = <<"/">>
    /\ Failed("home")
    /\ req.lookupSlug = <<"/">>
    /\ req.outcome.kind = "NotFound"
    /\ req.outcome.status = 404

\* the home page query of the request found a page whose record has no slug
HomeWithoutSlug ==
    /\ CalledOk("home")
    /\ HomePageRow(db, req.site.home_page_id) # NoRow
    /\ Falsy(HomePageRow(db, req.site.home_page_id).slug)

\* C22: a request for "/" whose home page has no slug ends in the
\* server-error page and not in the not-found page
C22_HomeWithoutSlugIsServerError ==
    (req.pc = "done" /\ HomeWithoutSlug) => req.outcome.kind = "ServerError"

\* the request is a module index request whose template <module>/index.njk
\* the engine cannot load
MissingIndexTemplate ==
    /\ IndexModule(req.slug) # ""
    /\ <<IndexModule(req.slug) \o "/index.njk">> \notin db.templates

\* C23: a module index request whose index template does not exist ends in
\* the not-found page
C23_MissingIndexTemplateIsNotFound ==
    (req.pc = "done" /\ MissingIndexTemplate) => req.outcome.kind = "NotFound"

\* the content record of the request is of a module that is none of pages,
\* products and blocks, and its module query was answered
UnknownModule ==
    /\ req.contentRow # NoRow
    /\ req.contentRow.module \notin {"pages", "products", "blocks"}
    /\ CalledOk("module")

\* C24: a content record of an unknown module is dispatched as a pages
\* record is: the module record is the published page that references the
\* content record, the request is answered NotFound when there is none and
\* with the RenderContext of that page's template otherwise, and it ends in
\* an error only as a pages record would (no template assigned, or a
\* template the engine cannot load)
C24_UnknownModuleAsPages ==
    (req.pc = "done" /\ UnknownModule) =>
      LET c == req.contentRow
          P == {p \in db.pages : p.content_id = c.id /\ p.status = "published"}
      IN  /\ req.pageData = ModuleRecord(db, [c EXCEPT !.module = "pages"])
          /\ P = {} => req.outcome.kind = "NotFound"
          /\ P # {} =>
               /\ req.pageData \in P
               /\ req.outcome.kind \in {"RenderContext", "ServerError",
                                        "ErrorHandler"}
               /\ req.outcome.kind = "ServerError" =>
                    Falsy(req.pageData.template_filename)
               /\ req.outcome.kind = "ErrorHandler" =>
                    req.pageData.template_filename \notin db.templates
               /\ req.outcome.kind = "RenderContext" =>
                    /\ req.outcome.template = req.pageData.template_filename
                    /\ req.outcome.context.page = req.pageData

\* /blog/post, a record of module blog, is rendered with the template of
\* its published page
C24_Witness ==
    /\ req.pc = "done"
    /\ req.path = <<"/", "blog", "/", "post">>
    /\ req.contentRow.id = 4
    /\ req.pageData.id = 14
    /\ req.outcome.kind = "RenderContext"
    /\ req.outcome.status = 200

\* a column value that is a text JSON.parse rejects
MalformedJson(v) == v.t = "string" /\ Trim(v.s) # <<>> /\ ~JsonParse(v.s).ok

\* the value with well-formed JSON in place of a malformed text
Mended(v) == IF MalformedJson(v) THEN JStr(GoodSchema) ELSE v

\* the stored state with every malformed data and schema_markup text
\* replaced by well-formed JSON
WellFormed(d) ==
    [d EXCEPT
       !.content = {[c EXCEPT !.data = Mended(c.data)] : c \in d.content},
       !.pages = {[p EXCEPT !.schema_markup = Mended(p.schema_markup)] :
                    p \in d.pages},
       !.products = {[p EXCEPT !.schema_markup = Mended(p.schema_markup)] :
                       p \in d.products}]

\* the request has resolved a record with a template whose data or
\* schema_markup is malformed JSON
ResolvedMalformed ==
    /\ req.pageData # NoRow
    /\ ~Falsy(req.pageData.template_filename)
    /\ \/ MalformedJson(req.contentRow.data)
       \/ MalformedJson(req.pageData.schema_markup)

\* C25: a resolved record with malformed JSON is rendered as it would be
\* with well-formed JSON in its place (same queries, same kind of outcome,
\* status, template, site and SEO data but for the schema); a malformed
\* schema_markup gives seo.schema = null and a malformed data gives the
\* empty field map
C25_MalformedJsonAbsorbed ==
    (req.pc = "done" /\ ResolvedMalformed) =>
      LET t == ResolveWith(WellFormed(db), req.path, req.calls)
          o == req.outcome
      IN  /\ o.kind \in {"RenderContext", "ErrorHandler"}
          /\ o.kind = "ErrorHandler" => o.template \notin db.templates
          /\ t.calls = req.calls
          /\ o.kind = t.outcome.kind
          /\ o.status = t.outcome.status
          /\ o.template = t.outcome.template
          /\ o.context.site = t.outcome.context.site
          /\ [o.context.seo EXCEPT !.schema = JNull]
               = [t.outcome.context.seo EXCEPT !.schema = JNull]
          /\ MalformedJson(req.contentRow.data) =>
               o.context.content = JObj([kind |-> "object"])
          /\ MalformedJson(req.pageData.schema_markup) =>
               o.context.seo.schema = JNull

\* /pages/about, whose data and schema_markup are malformed, is rendered
\* with the empty field map and seo.schema = null
C25_Witness ==
    /\ req.pc = "done"
    /\ req.contentRow.id = 2
    /\ req.pageData.id = 12
    /\ MalformedJson(req.contentRow.data)
    /\ MalformedJson(req.pageData.schema_markup)
    /\ req.outcome.kind = "RenderContext"
    /\ req.outcome.status = 200
    /\ req.outcome.context.content = JObj([kind |-> "object"])
    /\ req.outcome.context.seo.schema = JNull

-----------------------------------------------------------------------------
(* Block embedding: the renderBlock global of setupRenderBlock             *)

MaxBlocks == 2

\* parseJsonField(block.content) || {}
EmptyObject == JObj([kind |-> "object"])

\* block templates the engine can load: footer renders any content, strict
\* raises while rendering a content without fields, broken does not compile
FooterTemplate == <<"blocks/footer.njk">>
StrictTemplate == <<"blocks/strict.njk">>
BrokenTemplate == <<"blocks/broken.njk">>
GoneTemplate == <<"blocks/gone.njk">>
LoadableBlockTemplates == {FooterTemplate, StrictTemplate, BrokenTemplate}

\* env.render(name, ctx) without a callback: returns the html or throws
EnvRender(name, content) ==
    IF \/ name \notin LoadableBlockTemplates
       \/ name = BrokenTemplate
       \/ name = StrictTemplate /\ content = EmptyObject
    THEN [threw |-> TRUE, html |-> Null]
    ELSE [threw |-> FALSE, html |-> <<"<div>">> \o name \o <<"</div>">>]

\* the rows of getAllBlocks: content is a JSON column, template_filename is
\* null when the LEFT JOIN finds no template
BlockContents == {JStr(GoodSchema), JStr(BadSchema), JStr(<<" ">>), JNull}
BlockSlugs == {<<"footer">>, <<"cta">>}
Blocks ==
    [slug : BlockSlugs,
     content : BlockContents,
     template_filename : LoadableBlockTemplates \cup {GoneTemplate, Null}]

\* blocksData.find(b => b.slug === slug), NoRow when there is none
FindBlock(data, slug) ==
    LET S == {k \in DOMAIN data : data[k].slug = slug}
    IN  IF S = {} THEN NoRow ELSE data[MinOf(S)]

\* the renderBlock closure without its try/catch
renderBlockNoCatch(data, slug) ==
    LET block == FindBlock(data, slug)
    IN  IF block = NoRow THEN [threw |-> FALSE, value |-> JStr(<<>>)]
        ELSE LET c == parseJsonField(block.content)
                 blockContent == IF c = JNull THEN EmptyObject ELSE c
                 r == EnvRender(block.template_filename, blockContent)
             IN  IF r.threw THEN [threw |-> TRUE, value |-> JNull]
                 ELSE [threw |-> FALSE, value |-> JStr(r.html)]

\* env.addGlobal('renderBlock', (slug) => ...)
renderBlock(data, slug) ==
    LET block == FindBlock(data, slug)
    IN  IF block = NoRow THEN [threw |-> FALSE, value |-> JStr(<<>>)]
        ELSE LET c == parseJsonField(block.content)
                 blockContent == IF c = JNull THEN EmptyObject ELSE c
                 r == EnvRender(block.template_filename, blockContent)
             IN  IF r.threw THEN [threw |-> FALSE, value |-> JStr(<<>>)]
                 ELSE [threw |-> FALSE, value |-> JStr(r.html)]

NoCall == [slug |-> Null]

\* setupRenderBlock(env, blocksData) has registered the closure
BlockInit ==
    /\ blocksData \in SeqsUpTo(Blocks, MaxBlocks)
    /\ blockCall = NoCall

BlockIdle == blocksData = <<>> /\ blockCall = NoCall

\* a template calls renderBlock(slug)
RenderBlock ==
    \E slug \in BlockSlugs \cup {<<"missing-slug">>} :
      /\ blockCall' = [slug |-> slug, out |-> renderBlock(blocksData, slug)]
      /\ UNCHANGED <<blocksData, notBlock>>

BlockNext == RenderBlock

\* the block's content does not parse to an object
MalformedContent(block) == parseJsonField(block.content) = JNull

\* the block's template is missing, unassigned or fails to render
Unrenderable(block) ==
    \/ block.template_filename \notin {FooterTemplate, StrictTemplate}
    \/ block.template_filename = StrictTemplate /\ MalformedContent(block)

\* C9: renderBlock(slug) never raises and always returns a string: the
\* empty string when no registered block has the slug or when the block
\* found cannot be rendered, the rendered html otherwise, malformed block
\* content being rendered as an empty object
C9_RenderBlockNeverRaises ==
    blockCall # NoCall =>
      LET block == FindBlock(blocksData, blockCall.slug)
          res == blockCall.out
      IN  /\ ~res.threw
          /\ res.value.t = "string"
          /\ block = NoRow => res.value = JStr(<<>>)
          /\ (block # NoRow /\ Unrenderable(block)) => res.value = JStr(<<>>)
          /\ (block # NoRow /\ ~Unrenderable(block)) =>
               res.value
                 = JStr(<<"<div>">> \o block.template_filename \o <<"</div>">>)

\* a footer block with malformed content and a template that does not
\* compile is embedded as the empty string
C9_Witness ==
    /\ blockCall # NoCall
    /\ blockCall.slug = <<"footer">>
    /\ Len(blocksData) = 2
    /\ blocksData[1].slug = <<"cta">>
    /\ blocksData[2] = [slug |-> <<"footer">>, content |-> JStr(BadSchema),
                        template_filename |-> BrokenTemplate]
    /\ blockCall.out = [threw |-> FALSE, value |-> JStr(<<>>)]

-----------------------------------------------------------------------------
(* Template catalog sync: scanTemplates, syncTemplatesToDb,                *)
(* registerContentTypes                                                    *)

MaxFiles == 2
MaxRuns == 2

\* the annotated elements the template files of the model hold
HeroElem ==
    [name |-> <<"hero", "_", "title">>, type |-> Null, fields |-> Null,
     label |-> Null, required |-> Null, placeholder |-> Null,
     lead |-> FALSE]
BodyElem ==
    [name |-> <<"body">>, type |-> <<"repeater">>, fields |-> GoodFields,
     label |-> Null, required |-> Null, placeholder |-> Null,
     lead |-> FALSE]

\* a directory entry below TEMPLATES_DIR: the directories that lead to it,
\* its name without extension, and its extension
HomeFile == [dir |-> <<"pages">>, base |-> <<"home">>, ext |-> ".njk"]
PostFile == [dir |-> <<"blog">>, base |-> <<"post">>, ext |-> ".njk"]
FooterFile == [dir |-> <<"blocks">>, base |-> <<"footer">>, ext |-> ".njk"]
RootFile == [dir |-> <<>>, base |-> <<"base">>, ext |-> ".njk"]
LayoutFile == [dir |-> <<"layouts">>, base |-> <<"base">>, ext |-> ".njk"]
NotesFile == [dir |-> <<"pages">>, base |-> <<"notes">>, ext |-> ".md"]
PromoFile ==
    [dir |-> <<"pages", "landing">>, base |-> <<"promo", "_", "page">>,
     ext |-> ".njk"]

\* the entries in the order scanDir meets them (readdir order, depth first)
ScanOrder ==
    <<RootFile, FooterFile, PostFile, LayoutFile, HomeFile, PromoFile,
      NotesFile>>

FilePaths == {ScanOrder[k] : k \in DOMAIN ScanOrder}

\* what each file holds
MarkupOf(f) ==
    CASE f = HomeFile -> <<HeroElem, BodyElem>>
      [] f = PostFile -> <<HeroElem, HeroElem>>
      [] f = PromoFile -> <<BodyElem>>
      [] OTHER -> <<>>

\* prefix ? `${prefix}/${entry.name}` : entry.name
RECURSIVE DirPrefix(_)
DirPrefix(dir) ==
    IF dir = <<>> THEN <<>> ELSE <<Head(dir), "/">> \o DirPrefix(Tail(dir))

RelativePath(f) == DirPrefix(f.dir) \o f.base \o <<f.ext>>

\* JSON.stringify(value): a string that parses back to value
JsonStringify(value) == [t |-> "string", json |-> value]

\* parseTemplate(filename): a file that cannot be read yields []
parseTemplate(t, f) ==
    IF ~t[f] THEN <<>>
    ELSE LET r == extractRegions(MarkupText(MarkupOf(f)))
         IN  IF r.threw THEN <<>> ELSE r.regions

\* scanDir: layouts directories are not entered, only .njk files are taken
IsScanned(f) ==
    /\ \A k \in DOMAIN f.dir : f.dir[k] # "layouts"
    /\ f.ext = ".njk"

\* scanTemplates(): the templates list
scanTemplates(t) ==
    LET Taken(f) == f \in DOMAIN t /\ IsScanned(f)
        files == SelectSeq(ScanOrder, Taken)
    IN  [k \in DOMAIN files |->
           [filename |-> RelativePath(files[k]),
            name |-> formatLabel(files[k].base),
            regions |-> parseTemplate(t, files[k])]]

\* filename.split('/')[0]
extractContentType(filename) ==
    LET S == {k \in DOMAIN filename : filename[k] = "/"}
    IN  IF S = {} THEN filename ELSE SubSeq(filename, 1, MinOf(S) - 1)

\* name.charAt(0).toUpperCase() + name.slice(1).toLowerCase()
formatContentTypeLabel(name) == <<Cap(Head(name))>> \o Tail(name)

\* pluralize.plural(label)
Plural(label) ==
    CASE label = <<"Pages">> -> <<"Pages">>
      [] label = <<"Blocks">> -> <<"Blocks">>
      [] OTHER -> label \o <<"s">>

\* iconMap[contentType] || 'FileText'
getDefaultIcon(contentType) ==
    CASE contentType = <<"pages">> -> "FileText"
      [] contentType = <<"blocks">> -> "Boxes"
      [] contentType = <<"blog">> -> "BookOpen"
      [] contentType = <<"news">> -> "Newspaper"
      [] contentType = <<"products">> -> "Package"
      [] OTHER -> "FileText"

\* prisma.templates.upsert whose update appends to the stored region list
UpsertTemplateMerge(tbl, template) ==
    LET old == {r \in tbl : r.filename = template.filename}
        contentType == extractContentType(template.filename)
    IN  IF old = {}
        THEN tbl \cup {[filename |-> template.filename,
                        name |-> template.name,
                        regions |-> JsonStringify(template.regions),
                        content_type |-> contentType,
                        description |-> Null]}
        ELSE (tbl \ old) \cup
               {[r EXCEPT !.name = template.name,
                          !.regions =
                             IF r.regions = JNull
                             THEN JsonStringify(template.regions)
                             ELSE JsonStringify(r.regions.json
                                                  \o template.regions),
                          !.content_type = contentType] : r \in old}

\* an insert that leaves an existing row of the filename as it is
UpsertTemplateCreateOnly(tbl, template) ==
    IF \E r \in tbl : r.filename = template.filename THEN tbl
    ELSE tbl \cup {[filename |-> template.filename,
                    name |-> template.name,
                    regions |-> JsonStringify(template.regions),
                    content_type |-> extractContentType(template.filename),
                    description |-> Null]}

\* prisma.templates.upsert({ where: { filename }, create, update })
UpsertTemplate(tbl, template) ==
    LET old == {r \in tbl : r.filename = template.filename}
        contentType == extractContentType(template.filename)
    IN  IF old = {}
        THEN tbl \cup {[filename |-> template.filename,
                        name |-> template.name,
                        regions |-> JsonStringify(template.regions),
                        content_type |-> contentType,
                        description |-> Null]}
        ELSE (tbl \ old) \cup
               {[r EXCEPT !.name = template.name,
                          !.regions = JsonStringify(template.regions),
                          !.content_type = contentType] : r \in old}

\* discoveredTypes: the content types of the templates, in insertion order
RECURSIVE DiscoveredTypes(_, _)
DiscoveredTypes(templates, seen) ==
    IF templates = <<>> THEN seen
    ELSE LET ct == extractContentType(Head(templates).filename)
         IN  DiscoveredTypes(Tail(templates),
               IF \E k \in DOMAIN seen : seen[k] = ct
               THEN seen ELSE Append(seen, ct))

\* RegisterType that gives every created type a status and SEO fields
RegisterTypeAllSeo(types, typeName) ==
    IF \E r \in types : r.name = typeName THEN types
    ELSE types \cup
           {[name |-> typeName,
             label |-> formatContentTypeLabel(typeName),
             plural_label |-> Plural(formatContentTypeLabel(typeName)),
             icon |-> getDefaultIcon(typeName),
             has_status |-> TRUE,
             has_seo |-> TRUE,
             is_system |-> "default"]}

\* registerContentTypes, loop body: findUnique, then create when absent
RegisterType(types, typeName) ==
    IF \E r \in types : r.name = typeName THEN types
    ELSE types \cup
           {[name |-> typeName,
             label |-> formatContentTypeLabel(typeName),
             plural_label |-> Plural(formatContentTypeLabel(typeName)),
             icon |-> getDefaultIcon(typeName),
             has_status |-> typeName # <<"blocks">>,
             has_seo |-> typeName # <<"blocks">>,
             is_system |-> "default"]}

\* rows the templates table can hold before a sync: none, a row for
\* pages/home.njk edited through PUT /api/templates/:id, and a row for a
\* file that has since been removed
StaleRegions ==
    extractRegions(MarkupText(<<[HeroElem EXCEPT !.label = <<"A">>]>>)).regions
StaleHomeRow ==
    [filename |-> RelativePath(HomeFile),
     name |-> <<"Custom", " ", "Home">>,
     regions |-> JsonStringify(StaleRegions),
     content_type |-> <<"landing">>,
     description |-> <<"Edited">>]
GoneRow ==
    [filename |-> <<"old", "/", "gone", ".njk">>,
     name |-> <<"Gone">>, regions |-> JNull,
     content_type |-> <<"old">>, description |-> Null]
InitialTemplates == {{}, {StaleHomeRow}, {StaleHomeRow, GoneRow}}

\* rows the content_types table can hold before a sync: none, the seeded
\* pages and blocks, or an edited blog and a type without a directory
SeededTypes ==
    {[name |-> <<"pages">>, label |-> <<"Page">>, plural_label |-> <<"Pages">>,
      icon |-> "FileText", has_status |-> TRUE, has_seo |-> TRUE,
      is_system |-> "true"],
     [name |-> <<"blocks">>, label |-> <<"Block">>,
      plural_label |-> <<"Blocks">>, icon |-> "Boxes",
      has_status |-> FALSE, has_seo |-> FALSE, is_system |-> "true"]}
EditedTypes ==
    {[name |-> <<"blog">>, label |-> <<"Journal">>,
      plural_label |-> <<"Journal">>, icon |-> "Feather",
      has_status |-> TRUE, has_seo |-> FALSE, is_system |-> "false"],
     [name |-> <<"news">>, label |-> <<"News">>, plural_label |-> <<"News">>,
      icon |-> "Newspaper", has_status |-> TRUE, has_seo |-> TRUE,
      is_system |-> "false"]}
InitialTypes == {{}, SeededTypes, EditedTypes}

\* the template trees: up to MaxFiles entries, each readable or not
Trees ==
    UNION {[P -> BOOLEAN] :
             P \in {Q \in SUBSET FilePaths : Cardinality(Q) <= MaxFiles}}

NoTables == [templates |-> {}, types |-> {}]

\* no sync called yet; result is how the last call ended, before is what
\* the tables held when it was called
SyncOff ==
    [pc |-> "idle", templates |-> <<>>, i |-> 0, types |-> <<>>, j |-> 0,
     run |-> 0, result |-> "none", before |-> NoTables]

\* the POST /api/templates/sync requests that can be in progress at once
Runners == {"first", "second"}

\* syncs requested one after the other
SyncInit ==
    /\ tree \in Trees
    /\ templatesTbl \in InitialTemplates
    /\ contentTypes \in InitialTypes
    /\ sync = [r \in {"first"} |-> SyncOff]
    /\ snaps = <<>>

\* the trees used when two requests can be in progress at once
RaceTrees == {t \in Trees : DOMAIN t \subseteq {HomeFile, PostFile}}

\* syncs requested at any time
SyncRaceInit ==
    /\ tree \in RaceTrees
    /\ templatesTbl \in InitialTemplates
    /\ contentTypes \in InitialTypes
    /\ sync = [r \in Runners |-> SyncOff]
    /\ snaps = <<>>

SyncIdle ==
    /\ tree = <<>>
    /\ templatesTbl = {}
    /\ contentTypes = {}
    /\ sync = [pc |-> "off"]
    /\ snaps = <<>>

\* the call has returned or thrown: its locals are gone; what the tables
\* held before it is kept for a call that completed
EndSync(s, result) ==
    [SyncOff EXCEPT !.run = s.run, !.result = result,
                    !.before = IF result = "completed" THEN s.before
                               ELSE NoTables]

\* the state syncTemplatesToDb is in once template i - 1 is upserted
AfterUpsert(s, i) ==
    IF i <= Len(s.templates) THEN [s EXCEPT !.pc = "upsert", !.i = i]
    ELSE [s EXCEPT !.pc = "find", !.i = i,
                   !.types = DiscoveredTypes(s.templates, <<>>), !.j = 1]

\* the number of syncTemplatesToDb calls made so far
RECURSIVE RunsStarted(_)
RunsStarted(S) ==
    IF S = {} THEN 0
    ELSE LET r == CHOOSE x \in S : TRUE
         IN  sync[r].run + RunsStarted(S \ {r})

\* router.post('/sync') calls syncTemplatesToDb, whatever other call is in
\* progress: const templates = await scanTemplates(); the requests are
\* named in their order of arrival
StartSync(r) ==
    /\ r \in DOMAIN sync
    /\ sync[r].pc = "idle"
    /\ r = "second" => sync["first"].run > 0
    /\ RunsStarted(DOMAIN sync) < MaxRuns
    /\ sync' = [sync EXCEPT ![r] =
                  AfterUpsert([sync[r] EXCEPT
                                 !.templates = scanTemplates(tree),
                                 !.run = sync[r].run + 1,
                                 !.result = "running",
                                 !.before = [templates |-> templatesTbl,
                                             types |-> contentTypes]], 1)]
    /\ UNCHANGED <<tree, templatesTbl, contentTypes, snaps, notSync>>

\* one turn of the for loop: the upsert of template i, which may reject
Upsert(r) ==
    /\ r \in DOMAIN sync
    /\ sync[r].pc = "upsert"
    /\ \E ok \in BOOLEAN :
         IF ok
         THEN /\ templatesTbl'
                   = UpsertTemplate(templatesTbl,
                                    sync[r].templates[sync[r].i])
              /\ sync' = [sync EXCEPT ![r] = AfterUpsert(sync[r], sync[r].i + 1)]
         ELSE /\ templatesTbl' = templatesTbl
              /\ sync' = [sync EXCEPT ![r] = EndSync(sync[r], "failed")]
    /\ UNCHANGED <<tree, contentTypes, snaps, notSync>>

\* registerContentTypes: await prisma.content_types.findUnique for type j
FindType(r) ==
    /\ r \in DOMAIN sync
    /\ sync[r].pc = "find"
    /\ sync[r].j <= Len(sync[r].types)
    /\ \E ok \in BOOLEAN :
         sync' = IF ~ok
                 THEN [sync EXCEPT ![r] = EndSync(sync[r], "failed")]
                 ELSE IF \E c \in contentTypes :
                           c.name = sync[r].types[sync[r].j]
                 THEN [sync EXCEPT ![r].j = sync[r].j + 1]
                 ELSE [sync EXCEPT ![r].pc = "create"]
    /\ UNCHANGED <<tree, templatesTbl, contentTypes, snaps, notSync>>

\* registerContentTypes: await prisma.content_types.create for type j; the
\* create rejects when a row of the name has appeared since findUnique
CreateType(r) ==
    /\ r \in DOMAIN sync
    /\ sync[r].pc = "create"
    /\ \E ok \in BOOLEAN :
         IF ok /\ ~\E c \in contentTypes : c.name = sync[r].types[sync[r].j]
         THEN /\ contentTypes'
                   = RegisterType(contentTypes, sync[r].types[sync[r].j])
              /\ sync' = [sync EXCEPT ![r].pc = "find",
                                      ![r].j = sync[r].j + 1]
         ELSE /\ contentTypes' = contentTypes
              /\ sync' = [sync EXCEPT ![r] = EndSync(sync[r], "failed")]
    /\ UNCHANGED <<tree, templatesTbl, snaps, notSync>>

\* a sync that ends by deleting the content types it has not discovered
FinishSyncPruning(r) ==
    /\ r \in DOMAIN sync
    /\ sync[r].pc = "find"
    /\ sync[r].j > Len(sync[r].types)
    /\ sync' = [sync EXCEPT ![r] = EndSync(sync[r], "completed")]
    /\ contentTypes'
          = {c \in contentTypes :
               \E k \in DOMAIN sync[r].types : sync[r].types[k] = c.name}
    /\ snaps' = Append(snaps, [templates |-> templatesTbl,
                               types |-> contentTypes'])
    /\ UNCHANGED <<tree, templatesTbl, notSync>>

\* return templates: the sync has completed
FinishSync(r) ==
    /\ r \in DOMAIN sync
    /\ sync[r].pc = "find"
    /\ sync[r].j > Len(sync[r].types)
    /\ sync' = [sync EXCEPT ![r] = EndSync(sync[r], "completed")]
    /\ snaps' = Append(snaps, [templates |-> templatesTbl,
                               types |-> contentTypes])
    /\ UNCHANGED <<tree, templatesTbl, contentTypes, notSync>>

SyncNext ==
    \E r \in Runners :
      \/ StartSync(r)
      \/ Upsert(r)
      \/ FindType(r)
      \/ CreateType(r)
      \/ FinishSync(r)

-----------------------------------------------------------------------------
(* Template catalog sync: properties                                       *)

\* C10: a completed sync that follows another completed sync of the same
\* template tree leaves the templates table and the content_types table as
\* the earlier one left them
C10_SyncIdempotent ==
    \A k \in DOMAIN snaps :
      k > 1 => /\ snaps[k].templates = snaps[k - 1].templates
               /\ snaps[k].types = snaps[k - 1].types

\* two syncs have completed over a tree holding pages/home.njk, the first
\* having replaced the edited row of that file, kept the row of the removed
\* file and created the content type pages
C10_Witness ==
    /\ Len(snaps) = 2
    /\ HomeFile \in DOMAIN tree /\ tree[HomeFile]
    /\ GoneRow \in templatesTbl
    /\ StaleHomeRow \notin templatesTbl
    /\ \E r \in templatesTbl :
         /\ r.filename = RelativePath(HomeFile)
         /\ r.name = <<"Home">>
         /\ Len(r.regions.json) = 2
         /\ r.content_type = <<"pages">>
    /\ \E c \in contentTypes : c.name = <<"pages">> /\ c.is_system = "default"
    /\ snaps[2] = snaps[1]

\* the files of the tree that scanTemplates takes
ScannedFiles == {f \in DOMAIN tree : IsScanned(f)}

RowsOf(tbl, f) == {r \in tbl : r.filename = RelativePath(f)}

\* the top-level directory of a file, or the file's own name when it lies
\* in the template root
TopLevelName(f) ==
    IF f.dir = <<>> THEN f.base \o <<f.ext>> ELSE <<Head(f.dir)>>

\* C14: a completed sync has left the row of every unreadable file as it
\* was before the sync (absent when there was none) and has upserted every
\* readable file it scanned
C14_UnreadableSkipped ==
    \A r \in DOMAIN sync :
      sync[r].result = "completed" =>
        \A f \in ScannedFiles :
          IF tree[f]
          THEN \E row \in RowsOf(templatesTbl, f) :
                 row.regions
                   = JsonStringify(
                       extractRegions(MarkupText(MarkupOf(f))).regions)
          ELSE RowsOf(templatesTbl, f) = RowsOf(sync[r].before.templates, f)

\* C15: after a completed sync every scanned file has exactly one row, whose
\* name, regions and content type are the freshly derived ones, whatever
\* the row held before
C15_SyncOverwrites ==
    (\E r \in DOMAIN sync : sync[r].result = "completed") =>
      \A f \in ScannedFiles :
        /\ Cardinality(RowsOf(templatesTbl, f)) = 1
        /\ \A r \in RowsOf(templatesTbl, f) :
             /\ r.name = formatLabel(f.base)
             /\ r.regions
                  = JsonStringify(
                      IF tree[f]
                      THEN extractRegions(MarkupText(MarkupOf(f))).regions
                      ELSE <<>>)
             /\ r.content_type = TopLevelName(f)

\* the edited row of pages/home.njk (name Custom Home, one labelled region,
\* content type landing) has been replaced by the derived one
C15_Witness ==
    /\ sync["first"].result = "completed"
    /\ StaleHomeRow \in sync["first"].before.templates
    /\ HomeFile \in DOMAIN tree /\ tree[HomeFile]
    /\ \E r \in templatesTbl :
         /\ r.filename = <<"pages", "/", "home", ".njk">>
         /\ r.name = <<"Home">>
         /\ Len(r.regions.json) = 2
         /\ \A k \in 1..2 : r.regions.json[k].label # <<"A">>
         /\ r.content_type = <<"pages">>

\* C16: content types are registered once every template is upserted, and
\* after a completed sync every discovered name that had no content type
\* has one with has_status and has_seo true, false for blocks, while a name
\* that had one keeps it
C16_RegistersAbsentTypes ==
    \A r \in DOMAIN sync :
      /\ sync[r].pc \in {"find", "create"} =>
           sync[r].i > Len(sync[r].templates)
      /\ sync[r].result = "completed" =>
           \A n \in {TopLevelName(f) : f \in ScannedFiles} :
             LET had == {c \in sync[r].before.types : c.name = n}
                 has == {c \in contentTypes : c.name = n}
             IN  IF had # {} THEN has = had
                 ELSE /\ Cardinality(has) = 1
                      /\ \A c \in has :
                           /\ c.has_status = (n # <<"blocks">>)
                           /\ c.has_seo = (n # <<"blocks">>)

\* a sync over blocks/footer.njk and blog/post.njk with no content types
\* stored has created blocks without, and blog with, status and SEO
C16_Witness ==
    /\ sync["first"].result = "completed"
    /\ sync["first"].before.types = {}
    /\ DOMAIN tree = {FooterFile, PostFile}
    /\ \E c \in contentTypes :
         c.name = <<"blocks">> /\ ~c.has_status /\ ~c.has_seo
    /\ \E c \in contentTypes :
         c.name = <<"blog">> /\ c.has_status /\ c.has_seo
    /\ Cardinality(contentTypes) = 2

\* C17: at most one sync is in progress at any time
C17_AtMostOneSync ==
    Cardinality({r \in DOMAIN sync : sync[r].pc # "idle"}) <= 1

\* C26: no step of a sync changes or deletes a content type that exists:
\* every row of content_types is the same row after the step
C26_ExistingTypesUntouched ==
    [][\A c \in contentTypes : c \in contentTypes']_vars

\* a sync over a tree without blog directory has completed and created a
\* content type, and the edited content types blog and news are as they were
C26_Witness ==
    /\ sync["first"].result = "completed"
    /\ sync["first"].before.types = EditedTypes
    /\ \A f \in DOMAIN tree : TopLevelName(f) \notin {<<"blog">>, <<"news">>}
    /\ EditedTypes \subseteq contentTypes
    /\ contentTypes # EditedTypes

\* n is the name of a top-level directory of the template tree
IsTopLevelDirectory(n) ==
    \E f \in DOMAIN tree : f.dir # <<>> /\ n = <<Head(f.dir)>>

\* C29: after a completed sync every content type the sync has created,
\* and the content type stored on the row of every scanned file, is the
\* name of a top-level directory of the template tree
C29_TypesAreTopLevelDirectories ==
    \A r \in DOMAIN sync :
      sync[r].result = "completed" =>
        /\ \A c \in contentTypes \ sync[r].before.types :
             IsTopLevelDirectory(c.name)
        /\ \A f \in ScannedFiles :
             \A row \in RowsOf(templatesTbl, f) :
               IsTopLevelDirectory(row.content_type)

\* the router takes name for a module: a path below /name keeps its slug,
\* and /name is a module index request
RouterKnowsModule(name) ==
    /\ DefaultPrefix(<<"/">> \o name \o <<"/", "post">>)
         = <<"/">> \o name \o <<"/", "post">>
    /\ IndexModule(<<"/">> \o name) = Head(name)

\* C30: every content type a completed sync has registered from a template
\* directory is a module to the router
C30_RouterKnowsRegisteredTypes ==
    \A r \in DOMAIN sync :
      sync[r].result = "completed" =>
        \A c \in contentTypes \ sync[r].before.types :
          IsTopLevelDirectory(c.name) => RouterKnowsModule(c.name)

-----------------------------------------------------------------------------
(* Specifications                                                          *)

InitExtract == ExtractInit /\ SeoIdle /\ RouterIdle /\ BlockIdle /\ SyncIdle

SpecExtract == InitExtract /\ [][ExtractNext]_vars

InitExtractOrder ==
    ExtractOrderInit /\ SeoIdle /\ RouterIdle /\ BlockIdle /\ SyncIdle

SpecExtractOrder == InitExtractOrder /\ [][ExtractNext]_vars

InitSeo == SeoInit /\ ExtractIdle /\ RouterIdle /\ BlockIdle /\ SyncIdle

SpecSeo == InitSeo /\ [][SeoNext]_vars

InitRouter == RouterInit /\ ExtractIdle /\ SeoIdle /\ BlockIdle /\ SyncIdle

SpecRouter == InitRouter /\ [][RouterNext]_vars

InitBlock == BlockInit /\ ExtractIdle /\ SeoIdle /\ RouterIdle /\ SyncIdle

SpecBlock == InitBlock /\ [][BlockNext]_vars

InitSync ==
    SyncInit /\ ExtractIdle /\ SeoIdle /\ RouterIdle /\ BlockIdle

SpecSync == InitSync /\ [][SyncNext]_vars

InitSyncRace ==
    SyncRaceInit /\ ExtractIdle /\ SeoIdle /\ RouterIdle /\ BlockIdle

SpecSyncRace == InitSyncRace /\ [][SyncNext]_vars

=============================================================================
